---- MODULE Spec2Model ----
(***************************************************************************)
(* A model of the YAML language service's parser module (yamlParser.ts):   *)
(* the scalar type classifier, the literal parsers, the AST normalizer and *)
(* the top-level parse function; of the lookups the JSON parser's tree     *)
(* offers on the result (getPath, getValue, getNodeFromOffset); and of the *)
(* position calculator (documentPositionCalculator.ts).                    *)
(*                                                                         *)
(* Strings are sequences of one-character strings.  JavaScript numbers are *)
(* records (see Finite, NaN, Infinity below).  A function that may throw   *)
(* returns a completion record (Return / Throw).                           *)
(***************************************************************************)
EXTENDS Integers, Sequences, FiniteSets, TLC

VARIABLES
    node,      \* the Yaml.YAMLScalar handed to the scalar functions
    call,      \* the exported function that was applied last
    ret,       \* its completion
    yamlDoc,   \* what Yaml.safeLoad(text) returned to parse
    pc,        \* "start" before parse ran, "done" after
    result,    \* the completion of parse: the JSONDocument or the throw
    query,     \* the last lookup made on the parsed tree and what it returned
    calc,      \* the last call of the position calculator and what it returned
    diag,      \* the last tokenizer exception converted and the diagnostic made
    service,   \* the language service: its comment flag and the calls made on it
    edit       \* the last call of the formatter and what it returned

vars == <<node, call, ret, yamlDoc, pc, result, query, calc, diag, service, edit>>

(***************************************************************************)
(* Bounds of the checked inputs.                                           *)
(***************************************************************************)
MaxLen == 3        \* longest text enumerated over NumChars
MaxNodes == 4      \* most tokenizer nodes in one document graph
MaxErrors == 2     \* most tokenizer exceptions in one document

(***************************************************************************)
(* Characters and texts.                                                   *)
(***************************************************************************)
Digits == {"0", "1", "2", "3", "4", "5", "6", "7", "8", "9"}
OctDigits == {"0", "1", "2", "3", "4", "5", "6", "7"}
HexLetters == {"a", "b", "c", "d", "e", "f", "A", "B", "C", "D", "E", "F"}
Signs == {"-", "+"}
WhiteSpace == {" "}

DigitVal(c) ==
    CASE c = "0" -> 0 [] c = "1" -> 1 [] c = "2" -> 2 [] c = "3" -> 3
      [] c = "4" -> 4 [] c = "5" -> 5 [] c = "6" -> 6 [] c = "7" -> 7
      [] c = "8" -> 8 [] c = "9" -> 9
      [] c \in {"a", "A"} -> 10 [] c \in {"b", "B"} -> 11
      [] c \in {"c", "C"} -> 12 [] c \in {"d", "D"} -> 13
      [] c \in {"e", "E"} -> 14 [] c \in {"f", "F"} -> 15

\* The letters whose two cases occur in the checked texts.
UpperOf(c) ==
    CASE c = "n" -> "N" [] c = "u" -> "U" [] c = "l" -> "L" [] c = "t" -> "T"
      [] c = "r" -> "R" [] c = "e" -> "E" [] c = "f" -> "F" [] c = "a" -> "A"
      [] c = "s" -> "S" [] c = "i" -> "I"
      [] OTHER -> c

\* Every spelling of the lower-case word w that differs from it in letter case only.
CaseVariants(w) ==
    {s \in [1..Len(w) -> {w[i] : i \in 1..Len(w)} \cup {UpperOf(w[i]) : i \in 1..Len(w)}] :
        \A i \in 1..Len(w) : s[i] \in {w[i], UpperOf(w[i])}}

\* String.prototype.substring(from) on a text.
Substring(s, from) == SubSeq(s, from + 1, Len(s))

\* s begins with the text p: s.lastIndexOf(p, 0) === 0.
StartsWith(s, p) == Len(s) >= Len(p) /\ SubSeq(s, 1, Len(p)) = p

(***************************************************************************)
(* Regular expressions: the part of the JavaScript RegExp language that    *)
(* the module's patterns use.  Ends(re, s, i) is the set of offsets at     *)
(* which a match of re that starts at offset i of s can end.               *)
(***************************************************************************)
Chr(S) == [op |-> "chr", set |-> S]
Lit(c) == Chr({c})
Cat(rs) == [op |-> "cat", parts |-> rs]
Alt(rs) == [op |-> "alt", parts |-> rs]
Opt(r) == [op |-> "opt", arg |-> r]
Star(r) == [op |-> "star", arg |-> r]
Plus(r) == Cat(<<r, Star(r)>>)
Word(w) == Cat([i \in 1..Len(w) |-> Lit(w[i])])

RECURSIVE Ends(_, _, _)
RECURSIVE CatEnds(_, _, _, _)
RECURSIVE StarEnds(_, _, _, _)

Ends(re, s, i) ==
    CASE re.op = "chr" -> IF i < Len(s) /\ s[i + 1] \in re.set THEN {i + 1} ELSE {}
      [] re.op = "cat" -> CatEnds(re.parts, 1, s, {i})
      [] re.op = "alt" -> UNION {Ends(re.parts[k], s, i) : k \in 1..Len(re.parts)}
      [] re.op = "opt" -> {i} \cup Ends(re.arg, s, i)
      [] re.op = "star" -> StarEnds(re.arg, s, {i}, {i})

CatEnds(parts, k, s, from) ==
    IF k > Len(parts) THEN from
    ELSE CatEnds(parts, k + 1, s, UNION {Ends(parts[k], s, i) : i \in from})

StarEnds(r, s, seen, frontier) ==
    LET next == UNION {Ends(r, s, i) : i \in frontier} \ seen
    IN  IF next = {} THEN seen ELSE StarEnds(r, s, seen \cup next, next)

\* /^re$/.test(s)
Test(re, s) == Len(s) \in Ends(re, s, 0)

(***************************************************************************)
(* JavaScript numbers.  A finite number is kept as the decimal value       *)
(* (-1)^neg * m * 10^e with m not divisible by 10 (m = 0 has e = 0); the   *)
(* sign of zero is kept.  Values beyond the range of a double become       *)
(* Infinity or zero as in the engine; the rounding of the mantissa to 53   *)
(* bits is not represented.                                                *)
(***************************************************************************)
NaN == [k |-> "NaN", neg |-> FALSE, m |-> 0, e |-> 0]
Infinity(neg) == [k |-> "Infinity", neg |-> neg, m |-> 0, e |-> 0]

RECURSIVE Finite(_, _, _)
Finite(neg, m, e) ==
    IF m = 0 THEN [k |-> "finite", neg |-> neg, m |-> 0, e |-> 0]
    ELSE IF m % 10 = 0 THEN Finite(neg, m \div 10, e + 1)
    ELSE [k |-> "finite", neg |-> neg, m |-> m, e |-> e]

isNaN(x) == x.k = "NaN"

RECURSIVE NumDigits(_)
NumDigits(m) == IF m < 10 THEN 1 ELSE 1 + NumDigits(m \div 10)

\* The double nearest to a decimal value with at most nine significant digits.
ToDouble(x) ==
    IF x.k # "finite" \/ x.m = 0 THEN x
    ELSE LET d == NumDigits(x.m)
             lead == x.m * 10^(9 - d)
         IN  IF d + x.e > 309 \/ (d + x.e = 309 /\ lead >= 179769314) THEN Infinity(x.neg)
             ELSE IF d + x.e < -323 \/ (d + x.e = -323 /\ lead <= 247032822)
                  THEN Finite(x.neg, 0, 0)
             ELSE x

\* The value of a text of digits in the given radix.
RECURSIVE DigitsValue(_, _)
DigitsValue(ds, radix) ==
    IF ds = <<>> THEN 0
    ELSE DigitsValue(SubSeq(ds, 1, Len(ds) - 1), radix) * radix + DigitVal(ds[Len(ds)])

\* The length of the longest prefix of s made of characters of S.
RECURSIVE PrefixLen(_, _)
PrefixLen(s, S) ==
    IF s # <<>> /\ s[1] \in S THEN 1 + PrefixLen(Tail(s), S) ELSE 0

\* The first index of s holding a character of S, 0 when there is none.
IndexOf(s, S) ==
    IF \E i \in 1..Len(s) : s[i] \in S
    THEN CHOOSE i \in 1..Len(s) : s[i] \in S /\ \A j \in 1..(i - 1) : s[j] \notin S
    ELSE 0

TrimStart(s) == Substring(s, PrefixLen(s, WhiteSpace))

RadixDigits(R) == {c \in Digits \cup HexLetters : DigitVal(c) < R}

\* The global parseInt(string, radix); radix 0 stands for an omitted radix.
parseInt(string, radix) ==
    LET t == TrimStart(string)
        neg == t # <<>> /\ t[1] = "-"
        u == IF t # <<>> /\ t[1] \in Signs THEN Tail(t) ELSE t
        hex == radix \in {0, 16} /\ (StartsWith(u, <<"0", "x">>) \/ StartsWith(u, <<"0", "X">>))
        R == IF hex THEN 16 ELSE IF radix = 0 THEN 10 ELSE radix
        v == IF hex THEN Substring(u, 2) ELSE u
        n == PrefixLen(v, RadixDigits(R))
    IN  IF n = 0 THEN NaN
        ELSE Finite(neg, DigitsValue(SubSeq(v, 1, n), R), 0)

\* StrDecimalLiteral of the ECMAScript grammar, optionally signed.
StrDecimalLiteral ==
    LET digits == Plus(Chr(Digits))
        exponent == Opt(Cat(<<Chr({"e", "E"}), Opt(Chr(Signs)), digits>>))
    IN  Cat(<<Opt(Chr(Signs)),
              Alt(<<Word(<<"I", "n", "f", "i", "n", "i", "t", "y">>),
                    Cat(<<digits, Lit("."), Star(Chr(Digits)), exponent>>),
                    Cat(<<Lit("."), digits, exponent>>),
                    Cat(<<digits, exponent>>)>>)>>)

Max(S) == CHOOSE x \in S : \A y \in S : y <= x

\* The mathematical value of a text that is a StrDecimalLiteral.
DecimalValue(p) ==
    LET neg == p[1] = "-"
        body == IF p[1] \in Signs THEN Tail(p) ELSE p
        ePos == IndexOf(body, {"e", "E"})
        mant == IF ePos = 0 THEN body ELSE SubSeq(body, 1, ePos - 1)
        expo == IF ePos = 0 THEN <<>> ELSE Substring(body, ePos)
        expDigits == IF expo # <<>> /\ expo[1] \in Signs THEN Tail(expo) ELSE expo
        expVal == IF expo # <<>> /\ expo[1] = "-" THEN 0 - DigitsValue(expDigits, 10)
                  ELSE DigitsValue(expDigits, 10)
        dot == IndexOf(mant, {"."})
        intDs == IF dot = 0 THEN mant ELSE SubSeq(mant, 1, dot - 1)
        fracDs == IF dot = 0 THEN <<>> ELSE Substring(mant, dot)
    IN  IF body[1] = "I" THEN Infinity(neg)
        ELSE ToDouble(Finite(neg, DigitsValue(intDs \o fracDs, 10), expVal - Len(fracDs)))

\* The global parseFloat(string): the value of the longest prefix that is a
\* StrDecimalLiteral, NaN when no prefix is one.
parseFloat(string) ==
    LET t == TrimStart(string)
        ends == Ends(StrDecimalLiteral, t, 0)
    IN  IF ends = {} THEN NaN ELSE DecimalValue(SubSeq(t, 1, Max(ends)))

(***************************************************************************)
(* Completions: a call either returns a value or throws.                   *)
(***************************************************************************)
Return(v) == [thrown |-> FALSE, value |-> v]
Throw(what, input) == [thrown |-> TRUE, value |-> [error |-> what, input |-> input]]
JSBool(b) == [k |-> "boolean", b |-> b]

(***************************************************************************)
(* The literal parsers.                                                    *)
(***************************************************************************)
T_true == <<"t", "r", "u", "e">>
T_True == <<"T", "r", "u", "e">>
T_TRUE == <<"T", "R", "U", "E">>
T_false == <<"f", "a", "l", "s", "e">>
T_False == <<"F", "a", "l", "s", "e">>
T_FALSE == <<"F", "A", "L", "S", "E">>
T_null == <<"n", "u", "l", "l">>
T_Null == <<"N", "u", "l", "l">>
T_NULL == <<"N", "U", "L", "L">>
T_tilde == <<"~">>
T_nan == <<".", "n", "a", "n">>
T_NaN == <<".", "N", "a", "N">>
T_NAN == <<".", "N", "A", "N">>
T_inf == <<".", "i", "n", "f">>
T_Inf == <<".", "I", "n", "f">>
T_INF == <<".", "I", "N", "F">>

\* Variant: the membership tests read "> 0" for ">= 0".
parseYamlBoolean_offByOne(input) ==
    IF input \in {T_True, T_TRUE} THEN Return(JSBool(TRUE))
    ELSE IF input \in {T_False, T_FALSE} THEN Return(JSBool(FALSE))
    ELSE Throw("Invalid boolean", input)

parseYamlBoolean(input) ==
    IF input \in {T_true, T_True, T_TRUE} THEN Return(JSBool(TRUE))
    ELSE IF input \in {T_false, T_False, T_FALSE} THEN Return(JSBool(FALSE))
    ELSE Throw("Invalid boolean", input)

\* Variant: the 0o prefix is not special-cased.
safeParseYamlInteger_noOctal(input) == parseInt(input, 0)

safeParseYamlInteger(input) ==
    IF StartsWith(input, <<"0", "o">>) THEN parseInt(Substring(input, 2), 8)
    ELSE parseInt(input, 0)

parseYamlInteger(input) ==
    LET r == safeParseYamlInteger(input)
    IN  IF isNaN(r) THEN Throw("Invalid integer", input) ELSE Return(r)

\* /^([-+])?(?:\.inf|\.Inf|\.INF)$/
infinityParse == Cat(<<Opt(Chr(Signs)), Alt(<<Word(T_inf), Word(T_Inf), Word(T_INF)>>)>>)

\* Variant: the captured sign of an infinity is not looked at.
parseYamlFloat_signIgnored(input) ==
    IF input \in {T_nan, T_NaN, T_NAN} THEN Return(NaN)
    ELSE IF Test(infinityParse, input) THEN Return(Infinity(FALSE))
    ELSE LET r == parseFloat(input)
         IN  IF ~isNaN(r) THEN Return(r) ELSE Throw("Invalid float", input)

parseYamlFloat(input) ==
    IF input \in {T_nan, T_NaN, T_NAN} THEN Return(NaN)
    ELSE IF Test(infinityParse, input)
         THEN Return(Infinity(input[1] = "-"))
    ELSE LET r == parseFloat(input)
         IN  IF ~isNaN(r) THEN Return(r) ELSE Throw("Invalid float", input)

(***************************************************************************)
(* The scalar type classifier.                                             *)
(***************************************************************************)
ScalarType == {"null", "bool", "int", "float", "string"}

\* /^[-+]?[0-9]+$/
base10 == Cat(<<Opt(Chr(Signs)), Plus(Chr(Digits))>>)
\* /^0o[0-7]+$/
base8 == Cat(<<Lit("0"), Lit("o"), Plus(Chr(OctDigits))>>)
\* /^0x[0-9a-fA-F]+$/
base16 == Cat(<<Lit("0"), Lit("x"), Plus(Chr(Digits \cup HexLetters))>>)
\* /^[-+]?(\.[0-9]+|[0-9]+(\.[0-9]*)?)([eE][-+]?[0-9]+)?$/
float ==
    Cat(<<Opt(Chr(Signs)),
          Alt(<<Cat(<<Lit("."), Plus(Chr(Digits))>>),
                Cat(<<Plus(Chr(Digits)), Opt(Cat(<<Lit("."), Star(Chr(Digits))>>))>>)>>),
          Opt(Cat(<<Chr({"e", "E"}), Opt(Chr(Signs)), Plus(Chr(Digits))>>))>>)
\* /^[-+]?(\.inf|\.Inf|\.INF)$/
infinity == Cat(<<Opt(Chr(Signs)), Alt(<<Word(T_inf), Word(T_Inf), Word(T_INF)>>)>>)

\* Variants of the classifier: the quoting test without singleQuoted, the
\* null spellings without Null, the float rule tried before the int rule,
\* the float rule without the infinity pattern.
determineScalarTypeWith(n, single, nulls, floatFirst, infs) ==
    LET isInt == Test(base10, n.value) \/ Test(base8, n.value) \/ Test(base16, n.value)
        isFloat == Test(float, n.value) \/ (infs /\ Test(infinity, n.value))
                      \/ n.value \in {T_nan, T_NaN, T_NAN}
    IN  IF n.kind = "undefined" THEN "null"
        ELSE IF n.doubleQuoted \/ ~n.plainScalar \/ (single /\ n.singleQuoted) THEN "string"
        ELSE IF n.hasValue /\ n.value \in nulls THEN "null"
        ELSE IF ~n.hasValue THEN "null"
        ELSE IF n.value \in {T_true, T_True, T_TRUE, T_false, T_False, T_FALSE} THEN "bool"
        ELSE IF floatFirst /\ isFloat THEN "float"
        ELSE IF isInt THEN "int"
        ELSE IF isFloat THEN "float"
        ELSE "string"

determineScalarType_noSingleQuoted(n) ==
    determineScalarTypeWith(n, FALSE, {T_null, T_Null, T_NULL, T_tilde}, FALSE, TRUE)
determineScalarType_missingSpelling(n) ==
    determineScalarTypeWith(n, TRUE, {T_null, T_NULL, T_tilde}, FALSE, TRUE)
determineScalarType_floatFirst(n) ==
    determineScalarTypeWith(n, TRUE, {T_null, T_Null, T_NULL, T_tilde}, TRUE, TRUE)
determineScalarType_noInfinity(n) ==
    determineScalarTypeWith(n, TRUE, {T_null, T_Null, T_NULL, T_tilde}, FALSE, FALSE)

\* A scalar node carries its text in value (hasValue is FALSE for a null or
\* undefined value); the absent node has kind "undefined".
determineScalarType(n) ==
    IF n.kind = "undefined" THEN "null"
    ELSE IF n.doubleQuoted \/ ~n.plainScalar \/ n.singleQuoted THEN "string"
    ELSE IF n.hasValue /\ n.value \in {T_null, T_Null, T_NULL, T_tilde} THEN "null"
    ELSE IF ~n.hasValue THEN "null"
    ELSE IF n.value \in {T_true, T_True, T_TRUE, T_false, T_False, T_FALSE} THEN "bool"
    ELSE IF Test(base10, n.value) \/ Test(base8, n.value) \/ Test(base16, n.value) THEN "int"
    ELSE IF Test(float, n.value) \/ Test(infinity, n.value)
            \/ n.value \in {T_nan, T_NaN, T_NAN} THEN "float"
    ELSE "string"

(***************************************************************************)
(* The scalars the scalar functions are checked on: every text of at most  *)
(* MaxLen characters over NumChars, every letter-case spelling of the      *)
(* keyword literals, and some longer texts; each under every setting of    *)
(* the quoting flags.                                                      *)
(***************************************************************************)
NumChars == {"0", "1", "8", "a", "e", "x", "o", ".", "+", "-"}

TextsOver(S, n) == UNION {[1..k -> S] : k \in 0..n}

KeywordTexts ==
    CaseVariants(T_null) \cup CaseVariants(T_true) \cup CaseVariants(T_false)
        \cup CaseVariants(T_nan) \cup {T_tilde}
        \cup UNION {{v, <<"+">> \o v, <<"-">> \o v} : v \in CaseVariants(T_inf)}

MoreTexts ==
    {<<"y", "e", "s">>, <<"n", "o">>, <<" ", "1", "2">>, <<"1", "2", "a", "b", "c">>,
     <<"0", "x", "1", "F">>, <<"0", "X", "1", "f">>, <<"-", "0", "x", "1">>,
     <<"0", "o", "1", "7">>, <<"0", "o", "1", "8">>, <<"0", "o", "8">>, <<"0", "o", "-", "1">>,
     <<"+", "0", "1", "2">>, <<"-", "4", "2">>, <<"1", "2">>, <<"1", ".", "5">>,
     <<"-", "1", ".", "5", "e", "+", "3">>, <<"1", "E", "5">>, <<"1", ".", "5", "x">>,
     <<"1", "e", "9", "9", "9">>, <<"-", "1", "e", "9", "9", "9">>, <<"1", "e", "-", "9", "9", "9">>,
     <<"I", "n", "f", "i", "n", "i", "t", "y">>, <<"-", "I", "n", "f", "i", "n", "i", "t", "y">>,
     <<".", "i", "n", "f", "x">>, <<"t", "r", "u", "e", " ">>}

Texts == TextsOver(NumChars, MaxLen) \cup KeywordTexts \cup MoreTexts

Scalar(text, has, plain, dq, sq) ==
    [kind |-> "SCALAR", value |-> text, hasValue |-> has,
     plainScalar |-> plain, doubleQuoted |-> dq, singleQuoted |-> sq,
     startPosition |-> 0, endPosition |-> Len(text)]

UndefinedNode == [kind |-> "undefined"]

ScalarInputs ==
    {Scalar(t, TRUE, p, d, q) : t \in Texts, p \in BOOLEAN, d \in BOOLEAN, q \in BOOLEAN}
        \cup {Scalar(<<>>, FALSE, p, d, q) : p \in BOOLEAN, d \in BOOLEAN, q \in BOOLEAN}
        \cup {UndefinedNode}

NoRet == [thrown |-> FALSE, value |-> [k |-> "none"]]
NoDoc == [kind |-> "undefined"]
NoResult == [thrown |-> FALSE, value |-> [k |-> "none"]]
NoQuery == [op |-> "none"]
NoCalc == [op |-> "none"]
NoDiag == [op |-> "none"]
NoService == [created |-> FALSE]
NoEdit == [op |-> "none"]

TypeTag(t) == [k |-> "ScalarType", type |-> t]

(***************************************************************************)
(* ScalarSpec: one scalar is chosen and the exported scalar functions are  *)
(* applied to it.                                                          *)
(***************************************************************************)
ScalarInit ==
    /\ diag = NoDiag /\ service = NoService /\ edit = NoEdit
    /\ node \in ScalarInputs
    /\ call = "none"
    /\ ret = NoRet
    /\ yamlDoc = NoDoc
    /\ pc = "start"
    /\ result = NoResult
    /\ query = NoQuery
    /\ calc = NoCalc

DetermineScalarType ==
    /\ call' = "determineScalarType"
    /\ ret' = Return(TypeTag(determineScalarType(node)))
    /\ UNCHANGED <<node, yamlDoc, pc, result, query, calc, diag, service, edit>>

HasText == node.kind = "SCALAR" /\ node.hasValue

ParseYamlBoolean ==
    /\ HasText
    /\ call' = "parseYamlBoolean"
    /\ ret' = parseYamlBoolean(node.value)
    /\ UNCHANGED <<node, yamlDoc, pc, result, query, calc, diag, service, edit>>

ParseYamlInteger ==
    /\ HasText
    /\ call' = "parseYamlInteger"
    /\ ret' = parseYamlInteger(node.value)
    /\ UNCHANGED <<node, yamlDoc, pc, result, query, calc, diag, service, edit>>

ParseYamlFloat ==
    /\ HasText
    /\ call' = "parseYamlFloat"
    /\ ret' = parseYamlFloat(node.value)
    /\ UNCHANGED <<node, yamlDoc, pc, result, query, calc, diag, service, edit>>


(***************************************************************************)
(* The normalized tree.  The node classes are those of the JSON parser     *)
(* (ASTNode and its subclasses); a node is a record, its children are      *)
(* nested in it, and parent is a reference to the holder's identity.  The  *)
(* identity of a node (id) is the path of the tokenizer node it was built  *)
(* for: <<>> for the root, p \o <<i>> for the i-th item or mapping of p,   *)
(* p \o <<0>> and p \o <<1>> for the key and the value of the mapping p.   *)
(***************************************************************************)
NullRef == [isNull |-> TRUE, at |-> <<>>]
Ref(id) == [isNull |-> FALSE, at |-> id]

NullLoc == [k |-> "null"]
StrLoc(s) == [k |-> "string", s |-> s]
NumLoc(i) == [k |-> "number", n |-> i]

JSString(s) == [k |-> "string", s |-> s]
JSUndefined == [k |-> "undefined"]
\* node.value of a tokenizer node as a JavaScript value.
ValueOf(n) == IF n.hasValue THEN JSString(n.value) ELSE JSUndefined

UndefinedAst == [type |-> "undefined"]

ObjectASTNode(id, parent, name, start, end) ==
    [type |-> "object", id |-> id, parent |-> parent, location |-> name,
     start |-> start, end |-> end, properties |-> <<>>]
ArrayASTNode(id, parent, name, start, end) ==
    [type |-> "array", id |-> id, parent |-> parent, location |-> name,
     start |-> start, end |-> end, items |-> <<>>]
NullASTNode(id, parent, name, start, end) ==
    [type |-> "null", id |-> id, parent |-> parent, location |-> name,
     start |-> start, end |-> end]
BooleanASTNode(id, parent, name, value, start, end) ==
    [type |-> "boolean", id |-> id, parent |-> parent, location |-> name,
     start |-> start, end |-> end, value |-> value]
NumberASTNode(id, parent, name, start, end, value, isInteger) ==
    [type |-> "number", id |-> id, parent |-> parent, location |-> name,
     start |-> start, end |-> end, value |-> value, isInteger |-> isInteger]
StringASTNode(id, parent, name, isKey, start, end, value) ==
    [type |-> "string", id |-> id, parent |-> parent, location |-> name,
     start |-> start, end |-> end, isKey |-> isKey, value |-> value]
\* The constructor adopts the key: key.parent = this, key.location = key.value.
PropertyASTNode(id, parent, key, end) ==
    [type |-> "property", id |-> id, parent |-> parent, location |-> NullLoc,
     start |-> key.start, end |-> end,
     key |-> [key EXCEPT !.parent = Ref(id),
                         !.location = IF key.value.k = "string" THEN StrLoc(key.value.s)
                                      ELSE NullLoc],
     value |-> UndefinedAst]

addProperty(object, property) ==
    IF property.type = "undefined" THEN object
    ELSE [object EXCEPT !.properties = Append(@, property)]
addItem(array, item) ==
    IF item.type = "undefined" THEN array
    ELSE [array EXCEPT !.items = Append(@, item)]
setValue(property, value) == [property EXCEPT !.value = value]

\* Reading or writing a property of undefined.
TypeError == Throw("TypeError", <<>>)

(***************************************************************************)
(* recursivelyBuildAst.  Tokenizer nodes are records with the fields of    *)
(* Yaml.YAMLNode; an absent node (null or undefined) is UndefinedNode.     *)
(***************************************************************************)
RECURSIVE recursivelyBuildAst(_, _, _)
RECURSIVE BuildProperties(_, _, _)
RECURSIVE BuildItems(_, _, _, _)

\* for (const mapping of instance.mappings) result.addProperty(...)
BuildProperties(object, mappings, i) ==
    IF i > Len(mappings) THEN Return(object)
    ELSE LET c == recursivelyBuildAst(Ref(object.id), mappings[i], object.id \o <<i>>)
         IN  IF c.thrown THEN c
             ELSE BuildProperties(addProperty(object, c.value), mappings, i + 1)

\* Variant: the item's location is the count after its increment (++count).
BuildItems_preIncrement(array, items, i, count) ==
    IF i > Len(items) THEN Return(array)
    ELSE LET c == recursivelyBuildAst(Ref(array.id), items[i], array.id \o <<i>>)
         IN  IF c.thrown THEN c
             ELSE IF c.value.type = "undefined" THEN TypeError
             ELSE BuildItems(addItem(array, [c.value EXCEPT !.location = NumLoc(count + 1)]),
                             items, i + 1, count + 1)

\* for (const item of instance.items) { ...; itemNode.location = count++; ... }
BuildItems(array, items, i, count) ==
    IF i > Len(items) THEN Return(array)
    ELSE LET c == recursivelyBuildAst(Ref(array.id), items[i], array.id \o <<i>>)
         IN  IF c.thrown THEN c
             ELSE IF c.value.type = "undefined" THEN TypeError
             ELSE BuildItems(addItem(array, [c.value EXCEPT !.location = NumLoc(count)]),
                             items, i + 1, count + 1)

\* Variant: the value keeps the location it was built with (line 45 left out).
BuildMapping_noLocation(parent, n, id) ==
    IF n.key.kind = "undefined" THEN TypeError
    ELSE LET key == n.key
             keyNode == StringASTNode(id \o <<0>>, NullRef, NullLoc, TRUE,
                                      key.startPosition, key.endPosition,
                                      IF "hasValue" \in DOMAIN key THEN ValueOf(key)
                                      ELSE JSUndefined)
             property == PropertyASTNode(id, parent, keyNode, n.endPosition)
             keyLoc == IF keyNode.value.k = "string" THEN StrLoc(keyNode.value.s) ELSE NullLoc
             c == IF n.value.kind # "undefined"
                  THEN recursivelyBuildAst(Ref(id), n.value, id \o <<1>>)
                  ELSE Return(NullASTNode(id \o <<1>>, parent, keyLoc,
                                          n.startPosition, n.endPosition))
         IN  IF c.thrown THEN c
             ELSE IF c.value.type = "undefined" THEN TypeError
             ELSE Return(setValue(property, c.value))

\* Variant: the property ends where its key ends (line 42 left out).
BuildMapping_endAtKey(parent, n, id) ==
    IF n.key.kind = "undefined" THEN TypeError
    ELSE LET key == n.key
             keyNode == StringASTNode(id \o <<0>>, NullRef, NullLoc, TRUE,
                                      key.startPosition, key.endPosition,
                                      IF "hasValue" \in DOMAIN key THEN ValueOf(key)
                                      ELSE JSUndefined)
             property == PropertyASTNode(id, parent, keyNode, key.endPosition)
             keyLoc == IF keyNode.value.k = "string" THEN StrLoc(keyNode.value.s) ELSE NullLoc
             c == IF n.value.kind # "undefined"
                  THEN recursivelyBuildAst(Ref(id), n.value, id \o <<1>>)
                  ELSE Return(NullASTNode(id \o <<1>>, parent, keyLoc,
                                          n.startPosition, n.endPosition))
         IN  IF c.thrown THEN c
             ELSE IF c.value.type = "undefined" THEN TypeError
             ELSE Return(setValue(property, [c.value EXCEPT !.location = keyLoc]))

BuildMapping(parent, n, id) ==
    IF n.key.kind = "undefined" THEN TypeError
    ELSE LET key == n.key
             keyNode == StringASTNode(id \o <<0>>, NullRef, NullLoc, TRUE,
                                      key.startPosition, key.endPosition,
                                      IF "hasValue" \in DOMAIN key THEN ValueOf(key)
                                      ELSE JSUndefined)
             property == PropertyASTNode(id, parent, keyNode, n.endPosition)
             keyLoc == IF keyNode.value.k = "string" THEN StrLoc(keyNode.value.s) ELSE NullLoc
             c == IF n.value.kind # "undefined"
                  THEN recursivelyBuildAst(Ref(id), n.value, id \o <<1>>)
                  ELSE Return(NullASTNode(id \o <<1>>, parent, keyLoc,
                                          n.startPosition, n.endPosition))
         IN  IF c.thrown THEN c
             ELSE IF c.value.type = "undefined" THEN TypeError
             ELSE Return(setValue(property, [c.value EXCEPT !.location = keyLoc]))

\* Variant: the float case sets isInteger as the int case does.
BuildScalar_floatAsInteger(parent, n, id) ==
    LET type == determineScalarType(n)
        name == NullLoc
    IN  CASE type = "null" ->
                Return(NullASTNode(id, parent, name, n.startPosition, n.endPosition))
          [] type = "bool" ->
                LET c == parseYamlBoolean(n.value)
                IN  IF c.thrown THEN c
                    ELSE Return(BooleanASTNode(id, parent, name, c.value,
                                               n.startPosition, n.endPosition))
          [] type = "int" ->
                LET c == parseYamlInteger(n.value)
                IN  IF c.thrown THEN c
                    ELSE Return(NumberASTNode(id, parent, name, n.startPosition,
                                              n.endPosition, c.value, TRUE))
          [] type = "float" ->
                LET c == parseYamlFloat(n.value)
                IN  IF c.thrown THEN c
                    ELSE Return(NumberASTNode(id, parent, name, n.startPosition,
                                              n.endPosition, c.value, TRUE))
          [] type = "string" ->
                Return(StringASTNode(id, parent, name, FALSE, n.startPosition,
                                     n.endPosition, ValueOf(n)))

BuildScalar(parent, n, id) ==
    LET type == determineScalarType(n)
        name == NullLoc
    IN  CASE type = "null" ->
                Return(NullASTNode(id, parent, name, n.startPosition, n.endPosition))
          [] type = "bool" ->
                LET c == parseYamlBoolean(n.value)
                IN  IF c.thrown THEN c
                    ELSE Return(BooleanASTNode(id, parent, name, c.value,
                                               n.startPosition, n.endPosition))
          [] type = "int" ->
                LET c == parseYamlInteger(n.value)
                IN  IF c.thrown THEN c
                    ELSE Return(NumberASTNode(id, parent, name, n.startPosition,
                                              n.endPosition, c.value, TRUE))
          [] type = "float" ->
                LET c == parseYamlFloat(n.value)
                IN  IF c.thrown THEN c
                    ELSE Return(NumberASTNode(id, parent, name, n.startPosition,
                                              n.endPosition, c.value, FALSE))
          [] type = "string" ->
                Return(StringASTNode(id, parent, name, FALSE, n.startPosition,
                                     n.endPosition, ValueOf(n)))

recursivelyBuildAst(parent, n, id) ==
    IF n.kind = "undefined" THEN Return(UndefinedAst)
    ELSE CASE n.kind = "MAP" ->
                BuildProperties(ObjectASTNode(id, parent, NullLoc, n.startPosition,
                                              n.endPosition),
                                n.mappings, 1)
           [] n.kind = "MAPPING" -> BuildMapping(parent, n, id)
           [] n.kind = "SEQ" ->
                BuildItems(ArrayASTNode(id, parent, NullLoc, n.startPosition,
                                        n.endPosition),
                           n.items, 1, 0)
           [] n.kind = "SCALAR" -> BuildScalar(parent, n, id)
           [] n.kind \in {"INCLUDE_REF", "ANCHOR_REF"} -> Return(UndefinedAst)
           [] OTHER -> Return(UndefinedAst)

\* The chosen scalar is normalized on its own, as a document root is.
RecursivelyBuildAst ==
    /\ call' = "recursivelyBuildAst"
    /\ ret' = recursivelyBuildAst(NullRef, node, <<>>)
    /\ UNCHANGED <<node, yamlDoc, pc, result, query, calc, diag, service, edit>>

ScalarNext ==
    \/ DetermineScalarType
    \/ ParseYamlBoolean
    \/ ParseYamlInteger
    \/ ParseYamlFloat
    \/ RecursivelyBuildAst

ScalarSpec == ScalarInit /\ [][ScalarNext]_vars

(***************************************************************************)
(* convertError and parse.                                                 *)
(***************************************************************************)
Min(a, b) == IF a <= b THEN a ELSE b

convertError(e) ==
    LET bufferLength == e.mark.buffer.length - 2
    IN  [message |-> e.message,
         location |-> [start |-> Min(e.mark.position, bufferLength - 1),
                       end |-> bufferLength,
                       code |-> "Undefined"]]

duplicateKeyReason == "duplicate key"

\* Variant: both filters compare the reason's first word only.
RECURSIVE FilterMap_looseReason(_, _)
FilterMap_looseReason(es, dup) ==
    IF es = <<>> THEN <<>>
    ELSE IF (es[1].reason \in {"duplicate key", "duplicated mapping key"}) = dup
         THEN <<convertError(es[1])>> \o FilterMap_looseReason(Tail(es), dup)
         ELSE FilterMap_looseReason(Tail(es), dup)

\* array.filter(keep).map(convertError)
RECURSIVE FilterMap(_, _)
FilterMap(es, dup) ==
    IF es = <<>> THEN <<>>
    ELSE IF (es[1].reason = duplicateKeyReason) = dup
         THEN <<convertError(es[1])>> \o FilterMap(Tail(es), dup)
         ELSE FilterMap(Tail(es), dup)

InvalidSymbol(start, end) ==
    [message |-> "Expected a YAML object, array or literal",
     code |-> "Undefined",
     location |-> [start |-> start, end |-> end]]

\* Variant: the root-missing error is pushed without looking at the root.
parse_noRootTest(doc) ==
    LET c == recursivelyBuildAst(NullRef, doc.node, <<>>)
    IN  IF c.thrown THEN c
        ELSE IF doc.node.kind = "undefined" THEN TypeError
        ELSE Return([k |-> "JSONDocument",
                     root |-> c.value,
                     errors |-> <<InvalidSymbol(doc.node.startPosition, doc.node.endPosition)>>
                                   \o FilterMap(doc.errors, FALSE),
                     warnings |-> FilterMap(doc.errors, TRUE)])

\* yamlDoc.node is the node safeLoad returned, yamlDoc.errors its errors field.
\* When safeLoad returned no node the root is missing and reading
\* yamlDoc.startPosition for the root-missing error is a TypeError.
parse(doc) ==
    LET c == recursivelyBuildAst(NullRef, doc.node, <<>>)
        root == c.value
        first == IF root.type = "undefined"
                 THEN <<InvalidSymbol(doc.node.startPosition, doc.node.endPosition)>>
                 ELSE <<>>
    IN  IF c.thrown THEN c
        ELSE IF doc.node.kind = "undefined" THEN TypeError
        ELSE Return([k |-> "JSONDocument",
                     root |-> root,
                     errors |-> first \o FilterMap(doc.errors, FALSE),
                     warnings |-> FilterMap(doc.errors, TRUE)])

(***************************************************************************)
(* The tokenizer's output.  A document graph has at most MaxNodes nodes    *)
(* (an absent item counts as one), laid out as text from offset 0.  A      *)
(* flow-style collection, [item,item] or {key:value,key}, spans its        *)
(* brackets; a block-style collection, one "- item" or "key: value" per    *)
(* line, spans its first entry to its last.  A mapping spans its key to    *)
(* the end of its value, or to the end of its key when it has no value.    *)
(* An alias refers to the first scalar value that ends before it (the      *)
(* anchored node) and is unresolved when there is none.                    *)
(***************************************************************************)
PlainScalarAt(text, p) ==
    [kind |-> "SCALAR", value |-> text, hasValue |-> TRUE,
     plainScalar |-> TRUE, doubleQuoted |-> FALSE, singleQuoted |-> FALSE,
     startPosition |-> p, endPosition |-> p + Len(text)]

LeafTexts == {<<"1", "0">>, <<"a">>, <<"~">>}
KeyTexts == {<<"a">>, <<"b">>}
OtherKinds == {"ANCHOR_REF", "INCLUDE_REF"}

\* Graphs without their offsets.
LeafShapes ==
    {[kind |-> "SCALAR", value |-> t] : t \in LeafTexts}
        \cup {[kind |-> k] : k \in OtherKinds}

RECURSIVE Shapes(_)
RECURSIVE ItemShapes(_)
RECURSIVE MappingShapes(_)

\* The lists of items with n nodes in all.
ItemShapes(n) ==
    IF n = 0 THEN {<<>>}
    ELSE UNION {{<<first>> \o rest : first \in Shapes(k), rest \in ItemShapes(n - k)}
                : k \in 1..n}
         \cup {<<UndefinedNode>> \o rest : rest \in ItemShapes(n - 1)}

MappingShape(k) ==
    IF k = 1 THEN {[kind |-> "MAPPING", key |-> t, value |-> UndefinedNode] : t \in KeyTexts}
    ELSE {[kind |-> "MAPPING", key |-> t, value |-> v] : t \in KeyTexts, v \in Shapes(k - 1)}

MappingShapes(n) ==
    IF n = 0 THEN {<<>>}
    ELSE UNION {{<<first>> \o rest : first \in MappingShape(k), rest \in MappingShapes(n - k)}
                : k \in 1..n}

\* The graphs of exactly n nodes; an empty collection is written [] or {}.
Shapes(n) ==
    IF n = 1
    THEN LeafShapes \cup {[kind |-> "SEQ", flow |-> TRUE, items |-> <<>>],
                          [kind |-> "MAP", flow |-> TRUE, mappings |-> <<>>]}
    ELSE {[kind |-> "SEQ", flow |-> f, items |-> its]
            : f \in BOOLEAN, its \in ItemShapes(n - 1)}
         \cup {[kind |-> "MAP", flow |-> f, mappings |-> ms]
                 : f \in BOOLEAN, ms \in MappingShapes(n - 1)}

RECURSIVE Layout(_, _)
RECURSIVE LayoutList(_, _, _)

\* The entries of a collection laid out from offset p, each after a marker
\* of lead characters and followed by one separator; end is the offset
\* after the last separator.  An absent entry is its marker alone.
LayoutList(list, p, lead) ==
    IF list = <<>> THEN [list |-> <<>>, end |-> p]
    ELSE LET first == Layout(list[1], p + lead)
             last == IF first.kind = "undefined"
                     THEN (IF lead = 0 THEN p ELSE p + lead - 1)
                     ELSE first.endPosition
             rest == LayoutList(Tail(list), last + 1, lead)
         IN  [list |-> <<first>> \o rest.list, end |-> rest.end]

\* The graph of a shape, its text starting at offset p.
Layout(sh, p) ==
    CASE sh.kind = "undefined" -> UndefinedNode
      [] sh.kind = "SCALAR" -> PlainScalarAt(sh.value, p)
      [] sh.kind \in OtherKinds ->
            [kind |-> sh.kind, startPosition |-> p, endPosition |-> p + 2]
      [] sh.kind = "SEQ" ->
            LET its == IF sh.flow THEN LayoutList(sh.items, p + 1, 0)
                       ELSE LayoutList(sh.items, p, 2)
            IN  [kind |-> "SEQ", items |-> its.list, startPosition |-> p,
                 endPosition |-> IF sh.items = <<>> THEN p + 2
                                 ELSE IF sh.flow THEN its.end ELSE its.end - 1]
      [] sh.kind = "MAP" ->
            LET ms == IF sh.flow THEN LayoutList(sh.mappings, p + 1, 0)
                      ELSE LayoutList(sh.mappings, p, 0)
            IN  [kind |-> "MAP", mappings |-> ms.list, startPosition |-> p,
                 endPosition |-> IF sh.mappings = <<>> THEN p + 2
                                 ELSE IF sh.flow THEN ms.end ELSE ms.end - 1]
      [] sh.kind = "MAPPING" ->
            LET key == PlainScalarAt(sh.key, p)
                value == Layout(sh.value, key.endPosition + 1)
            IN  [kind |-> "MAPPING", key |-> key, value |-> value, startPosition |-> p,
                 endPosition |-> IF value.kind = "undefined" THEN key.endPosition
                                 ELSE value.endPosition]

RECURSIVE ScalarsOf(_)
RECURSIVE ScalarsOfList(_)

\* The scalar values of a graph (keys are not anchored here).
ScalarsOf(n) ==
    CASE n.kind = "SCALAR" -> {n}
      [] n.kind = "SEQ" -> ScalarsOfList(n.items)
      [] n.kind = "MAP" -> ScalarsOfList(n.mappings)
      [] n.kind = "MAPPING" -> ScalarsOf(n.value)
      [] OTHER -> {}

ScalarsOfList(list) ==
    IF list = <<>> THEN {} ELSE ScalarsOf(list[1]) \cup ScalarsOfList(Tail(list))

\* The node an alias at offset p refers to: the anchored scalar, or nothing.
AnchoredBefore(root, p) ==
    LET earlier == {s \in ScalarsOf(root) : s.endPosition <= p}
    IN  IF earlier = {} THEN UndefinedNode
        ELSE CHOOSE s \in earlier : \A t \in earlier : s.startPosition <= t.startPosition

RECURSIVE Resolve(_, _)
RECURSIVE ResolveList(_, _)

\* The graph with each alias holding the node it refers to.
Resolve(root, n) ==
    CASE n.kind = "ANCHOR_REF" ->
            [kind |-> "ANCHOR_REF", referencesAnchor |-> "ref",
             value |-> AnchoredBefore(root, n.startPosition),
             startPosition |-> n.startPosition, endPosition |-> n.endPosition]
      [] n.kind = "SEQ" -> [n EXCEPT !.items = ResolveList(root, n.items)]
      [] n.kind = "MAP" -> [n EXCEPT !.mappings = ResolveList(root, n.mappings)]
      [] n.kind = "MAPPING" -> [n EXCEPT !.value = Resolve(root, n.value)]
      [] OTHER -> n

ResolveList(root, list) ==
    IF list = <<>> THEN <<>>
    ELSE <<Resolve(root, list[1])>> \o ResolveList(root, Tail(list))

GraphOf(sh) == LET laid == Layout(sh, 0) IN Resolve(laid, laid)

Graphs == {GraphOf(sh) : sh \in UNION {Shapes(n) : n \in 1..MaxNodes}}

\* The exceptions the tokenizer attaches to a document whose text has the
\* given length; the buffer holds the text and the two characters the
\* tokenizer appends.
YAMLException(reason, position, length) ==
    [reason |-> reason, message |-> <<reason, position>>,
     mark |-> [position |-> position, buffer |-> [length |-> length + 2]]]

ExceptionsOf(length) ==
    {YAMLException("duplicate key", 0, length),
     YAMLException("duplicated mapping key", 0, length),
     YAMLException("unexpected end of the stream", length, length)}

ExceptionLists(length) == TextsOver(ExceptionsOf(length), MaxErrors)

(***************************************************************************)
(* ParseSpec: the tokenizer hands one document to parse.                   *)
(***************************************************************************)
ParseInit ==
    /\ diag = NoDiag /\ service = NoService /\ edit = NoEdit
    /\ \E g \in Graphs : \E es \in ExceptionLists(g.endPosition) :
          yamlDoc = [node |-> g, errors |-> es]
    /\ pc = "start"
    /\ result = NoResult
    /\ node = UndefinedNode
    /\ call = "none"
    /\ ret = NoRet
    /\ query = NoQuery
    /\ calc = NoCalc

Parse ==
    /\ pc = "start"
    /\ pc' = "done"
    /\ result' = parse(yamlDoc)
    /\ UNCHANGED <<yamlDoc, node, call, ret, query, calc, diag, service, edit>>

ParseNext == Parse

ParseSpec == ParseInit /\ [][ParseNext]_vars

(***************************************************************************)
(* The lookups of the JSON parser's tree (ASTNode.getChildNodes, getPath,  *)
(* getValue, getNodeFromOffset, getNodeFromOffsetEndInclusive and the      *)
(* JSONDocument methods that forward to the root).  A parent reference is  *)
(* followed by finding the node of that identity in the tree.              *)
(***************************************************************************)
getChildNodes(n) ==
    CASE n.type = "object" -> n.properties
      [] n.type = "array" -> n.items
      [] n.type = "property" ->
            IF n.value.type = "undefined" THEN <<n.key>> ELSE <<n.key, n.value>>
      [] OTHER -> <<>>

RECURSIVE NodesOf(_)
\* Every node of the tree under n, n included.
NodesOf(n) ==
    LET children == getChildNodes(n)
    IN  {n} \cup UNION {NodesOf(children[i]) : i \in DOMAIN children}

NodeAt(root, id) == CHOOSE n \in NodesOf(root) : n.id = id

RECURSIVE getPath(_, _)
getPath(root, n) ==
    LET path == IF n.parent.isNull THEN <<>> ELSE getPath(root, NodeAt(root, n.parent.at))
    IN  IF n.location # NullLoc THEN Append(path, n.location) ELSE path

JSNull == [k |-> "null"]

RECURSIVE getValue(_)
RECURSIVE ItemValues(_)

ItemValues(items) ==
    IF items = <<>> THEN <<>> ELSE <<getValue(items[1])>> \o ItemValues(Tail(items))

\* An object's value maps each key to the value of its last property of
\* that key; an array's value lists its items' values.
getValue(n) ==
    CASE n.type = "object" ->
            LET ps == n.properties
                keys == {ps[i].key.value : i \in DOMAIN ps}
                lastOf(key) == CHOOSE i \in DOMAIN ps :
                                  /\ ps[i].key.value = key
                                  /\ \A j \in DOMAIN ps : ps[j].key.value = key => j <= i
            IN  [k |-> "object", value |-> [key \in keys |-> getValue(ps[lastOf(key)].value)]]
      [] n.type = "array" -> [k |-> "array", value |-> ItemValues(n.items)]
      [] n.type = "null" -> JSNull
      [] OTHER -> n.value

RECURSIVE findNode(_, _, _)
RECURSIVE findNodeIn(_, _, _, _)

\* for (i = 0; i < children.length && children[i].start <= offset; i++)
findNodeIn(children, i, offset, endInclusive) ==
    IF i > Len(children) \/ children[i].start > offset THEN UndefinedAst
    ELSE LET item == findNode(children[i], offset, endInclusive)
         IN  IF item.type # "undefined" THEN item
             ELSE findNodeIn(children, i + 1, offset, endInclusive)

findNode(n, offset, endInclusive) ==
    IF offset >= n.start /\ (offset < n.end \/ (endInclusive /\ offset = n.end))
    THEN LET item == findNodeIn(getChildNodes(n), 1, offset, endInclusive)
         IN  IF item.type # "undefined" THEN item ELSE n
    ELSE UndefinedAst

\* JSONDocument: return this.root && this.root.getNodeFromOffset(offset)
getNodeFromOffset(doc, offset) ==
    IF doc.root.type = "undefined" THEN UndefinedAst ELSE findNode(doc.root, offset, FALSE)

getNodeFromOffsetEndInclusive(doc, offset) ==
    IF doc.root.type = "undefined" THEN UndefinedAst ELSE findNode(doc.root, offset, TRUE)

(***************************************************************************)
(* TreeSpec: a document without tokenizer exceptions is parsed and one     *)
(* lookup is applied to the returned document.                             *)
(***************************************************************************)
TreeInit ==
    /\ diag = NoDiag /\ service = NoService /\ edit = NoEdit
    /\ \E g \in Graphs : yamlDoc = [node |-> g, errors |-> <<>>]
    /\ pc = "start"
    /\ result = NoResult
    /\ query = NoQuery
    /\ node = UndefinedNode
    /\ call = "none"
    /\ ret = NoRet
    /\ calc = NoCalc

Parsed == pc = "done" /\ ~result.thrown
HasTree == Parsed /\ result.value.root.type # "undefined"

\* One past the end of the text is looked up as well.
Offsets == 0..(yamlDoc.node.endPosition + 1)

GetPath ==
    /\ HasTree /\ query = NoQuery
    /\ \E n \in NodesOf(result.value.root) :
          query' = [op |-> "getPath", id |-> n.id, path |-> getPath(result.value.root, n)]
    /\ UNCHANGED <<node, call, ret, yamlDoc, pc, result, calc, diag, service, edit>>

GetValue ==
    /\ HasTree /\ query = NoQuery
    /\ query' = [op |-> "getValue", value |-> getValue(result.value.root)]
    /\ UNCHANGED <<node, call, ret, yamlDoc, pc, result, calc, diag, service, edit>>

GetNodeFromOffset ==
    /\ Parsed /\ query = NoQuery
    /\ \E offset \in Offsets :
          query' = [op |-> "getNodeFromOffset", offset |-> offset,
                    found |-> getNodeFromOffset(result.value, offset)]
    /\ UNCHANGED <<node, call, ret, yamlDoc, pc, result, calc, diag, service, edit>>

GetNodeFromOffsetEndInclusive ==
    /\ Parsed /\ query = NoQuery
    /\ \E offset \in Offsets :
          query' = [op |-> "getNodeFromOffsetEndInclusive", offset |-> offset,
                    found |-> getNodeFromOffsetEndInclusive(result.value, offset)]
    /\ UNCHANGED <<node, call, ret, yamlDoc, pc, result, calc, diag, service, edit>>

TreeNext ==
    \/ Parse
    \/ GetPath
    \/ GetValue
    \/ GetNodeFromOffset
    \/ GetNodeFromOffsetEndInclusive

TreeSpec == TreeInit /\ [][TreeNext]_vars

(***************************************************************************)
(* The position calculator (documentPositionCalculator): a binary search   *)
(* over the ascending line starts of a text.  A JavaScript array is a      *)
(* sequence, so array[idx] is array[idx + 1] here.                         *)
(***************************************************************************)
\* Variant: the insertion point is negated only.
insertionPointReturnValue_negated(pt) == -pt

insertionPointReturnValue(pt) == (-pt) - 1

RECURSIVE search(_, _, _, _)
\* The loop of binarySearch over array[lower..upper].
search(array, sought, lower, upper) ==
    IF lower > upper THEN insertionPointReturnValue(lower)
    ELSE LET idx == (lower + upper) \div 2
             value == array[idx + 1]
         IN  IF value = sought THEN idx
             ELSE IF value < sought THEN search(array, sought, idx + 1, upper)
             ELSE search(array, sought, lower, idx - 1)

binarySearch(array, sought) == search(array, sought, 0, Len(array) - 1)

RECURSIVE scanLines(_, _, _)
RECURSIVE scanLines_carriageReturn(_, _, _)

\* Variant: a carriage return starts a line as well.
scanLines_carriageReturn(text, i, lineStartPositions) ==
    IF i > Len(text) THEN lineStartPositions
    ELSE scanLines_carriageReturn(text, i + 1,
                                  IF text[i] \in {"\n", "\r"}
                                  THEN Append(lineStartPositions, i)
                                  ELSE lineStartPositions)

\* The scan of getLineStartPositions from the i-th character on: a line
\* starts after each line feed, be it alone or the end of \r\n.
scanLines(text, i, lineStartPositions) ==
    IF i > Len(text) THEN lineStartPositions
    ELSE scanLines(text, i + 1,
                   IF text[i] = "\n" THEN Append(lineStartPositions, i)
                   ELSE lineStartPositions)

getLineStartPositions(text) == scanLines(text, 1, <<0>>)

\* Variant: the insertion point itself is taken as the line.
getPosition_lineAfter(pos, lineStartPositions) ==
    LET found == binarySearch(lineStartPositions, pos)
        line == IF found < 0 THEN (-1) * found - 1 ELSE found
    IN  [line |-> line,
         column |-> pos - lineStartPositions[Min(line, Len(lineStartPositions) - 1) + 1]]

getPosition(pos, lineStartPositions) ==
    LET found == binarySearch(lineStartPositions, pos)
        line == IF found < 0 THEN ((-1) * found - 1) - 1 ELSE found
    IN  [line |-> line, column |-> pos - lineStartPositions[line + 1]]

(***************************************************************************)
(* CalcSpec: one function of the position calculator is applied to an      *)
(* input.                                                                  *)
(***************************************************************************)
MaxValue == 4      \* greatest number in a searched array
MaxTextLen == 4    \* longest text split into lines

TextChars == {"a", "\n", "\r"}
LineTexts == TextsOver(TextChars, MaxTextLen)

RECURSIVE Ascending(_, _)
\* The members of the set S that are at least from, in ascending order.
Ascending(S, from) ==
    IF from > MaxValue THEN <<>>
    ELSE (IF from \in S THEN <<from>> ELSE <<>>) \o Ascending(S, from + 1)

SortedArrays == {Ascending(S, 0) : S \in SUBSET (0..MaxValue)}

CalcInit ==
    /\ diag = NoDiag /\ service = NoService /\ edit = NoEdit
    /\ calc = NoCalc
    /\ node = UndefinedNode
    /\ call = "none"
    /\ ret = NoRet
    /\ yamlDoc = NoDoc
    /\ pc = "start"
    /\ result = NoResult
    /\ query = NoQuery

BinarySearch ==
    /\ calc = NoCalc
    /\ \E array \in SortedArrays : \E sought \in 0..MaxValue :
          calc' = [op |-> "binarySearch", array |-> array, sought |-> sought,
                   index |-> binarySearch(array, sought)]
    /\ UNCHANGED <<node, call, ret, yamlDoc, pc, result, query, diag, service, edit>>

GetLineStartPositions ==
    /\ calc = NoCalc
    /\ \E text \in LineTexts :
          calc' = [op |-> "getLineStartPositions", text |-> text,
                   lineStartPositions |-> getLineStartPositions(text)]
    /\ UNCHANGED <<node, call, ret, yamlDoc, pc, result, query, diag, service, edit>>

GetPosition ==
    /\ calc = NoCalc
    /\ \E text \in LineTexts : \E pos \in 0..Len(text) :
          LET starts == getLineStartPositions(text)
          IN  calc' = [op |-> "getPosition", text |-> text, lineStartPositions |-> starts,
                       pos |-> pos, position |-> getPosition(pos, starts)]
    /\ UNCHANGED <<node, call, ret, yamlDoc, pc, result, query, diag, service, edit>>

CalcNext ==
    \/ BinarySearch
    \/ GetLineStartPositions
    \/ GetPosition

CalcSpec == CalcInit /\ [][CalcNext]_vars

(***************************************************************************)
(* Properties of the scalar functions (checked under ScalarSpec).  The     *)
(* grammars are stated here directly on the text, without the pattern      *)
(* matcher.                                                                *)
(***************************************************************************)
Classified == call = "determineScalarType"
Plain(n) == n.kind = "SCALAR" /\ n.plainScalar /\ ~n.doubleQuoted /\ ~n.singleQuoted
PlainText(n) == Plain(n) /\ n.hasValue
Quoted(n) == n.kind = "SCALAR" /\ (n.doubleQuoted \/ n.singleQuoted \/ ~n.plainScalar)

AllIn(s, S) == \A i \in 1..Len(s) : s[i] \in S
Unsigned(s) == IF s # <<>> /\ s[1] \in Signs THEN Tail(s) ELSE s

IsDecimalText(v) == Unsigned(v) # <<>> /\ AllIn(Unsigned(v), Digits)
IsOctalText(v) == Len(v) >= 3 /\ v[1] = "0" /\ v[2] = "o" /\ AllIn(Substring(v, 2), OctDigits)
IsHexText(v) ==
    Len(v) >= 3 /\ v[1] = "0" /\ v[2] = "x" /\ AllIn(Substring(v, 2), Digits \cup HexLetters)
IsIntText(v) == IsDecimalText(v) \/ IsOctalText(v) \/ IsHexText(v)

IsMantissa(m) ==
    \/ Len(m) >= 2 /\ m[1] = "." /\ AllIn(Tail(m), Digits)
    \/ \E k \in 1..Len(m) :
          /\ AllIn(SubSeq(m, 1, k), Digits)
          /\ k = Len(m) \/ (m[k + 1] = "." /\ AllIn(Substring(m, k + 1), Digits))
IsExponent(x) ==
    Len(x) >= 2 /\ x[1] \in {"e", "E"} /\ Unsigned(Tail(x)) # <<>> /\ AllIn(Unsigned(Tail(x)), Digits)
IsFloatGrammarText(v) ==
    \E k \in 1..Len(Unsigned(v)) :
        /\ IsMantissa(SubSeq(Unsigned(v), 1, k))
        /\ k = Len(Unsigned(v)) \/ IsExponent(Substring(Unsigned(v), k))

InfSpellings == {T_inf, T_Inf, T_INF}
IsInfText(v) == Unsigned(v) \in InfSpellings
NullSpellings == {T_null, T_Null, T_NULL, T_tilde}
BoolSpellings == {T_true, T_True, T_TRUE, T_false, T_False, T_FALSE}
NanSpellings == {T_nan, T_NaN, T_NAN}

\* C1: a scalar that is double-quoted, single-quoted or not plain is
\* classified string, whatever its text is.
C1_QuotedIsString ==
    Classified /\ Quoted(node) => ret = Return(TypeTag("string"))

\* C1 witness: the single-quoted text true, whose other flags are those of a
\* plain scalar, was classified string.
C1_Witness ==
    /\ Classified /\ ret.value.type = "string"
    /\ node.kind = "SCALAR" /\ node.hasValue /\ node.value = T_true
    /\ node.singleQuoted /\ node.plainScalar /\ ~node.doubleQuoted

\* C2 as stated: every letter-case variant of null (and ~) is classified
\* null and every letter-case variant of true and false is classified bool.
C2_CaseInsensitive ==
    Classified /\ PlainText(node) =>
        /\ node.value \in CaseVariants(T_null) \cup {T_tilde} => ret.value.type = "null"
        /\ node.value \in CaseVariants(T_true) \cup CaseVariants(T_false)
              => ret.value.type = "bool"

\* C2 amended: a plain text is classified null exactly when it is spelled
\* null, Null, NULL or ~ and bool exactly when it is spelled true, True, TRUE,
\* false, False or FALSE; every other letter-case variant of these words is
\* classified string.
C2_ExactSpellings ==
    Classified /\ PlainText(node) =>
        /\ ret.value.type = "null" <=> node.value \in NullSpellings
        /\ ret.value.type = "bool" <=> node.value \in BoolSpellings
        /\ node.value \in (CaseVariants(T_null) \cup CaseVariants(T_true) \cup CaseVariants(T_false))
                             \ (NullSpellings \cup BoolSpellings)
              => ret.value.type = "string"

\* C2 witness: the plain text nUll was classified string.
C2_Witness ==
    /\ Classified /\ PlainText(node)
    /\ node.value = <<"n", "U", "l", "l">> /\ ret.value.type = "string"

\* C3: a plain text that is no null or boolean literal is classified int
\* exactly when it follows the decimal, the octal or the hex grammar, also
\* when it follows the float grammar as well; every input gets one of the
\* five type tags.
C3_IntGrammar ==
    Classified =>
        /\ ~ret.thrown /\ ret.value.type \in ScalarType
        /\ PlainText(node) /\ node.value \notin NullSpellings \cup BoolSpellings
              => (ret.value.type = "int" <=> IsIntText(node.value))

\* C3 witness: a plain text that follows both the decimal and the float
\* grammar was classified int.
C3_Witness ==
    /\ Classified /\ PlainText(node)
    /\ IsDecimalText(node.value) /\ IsFloatGrammarText(node.value)
    /\ ret.value.type = "int"

\* C4 as stated: a plain text not classified null, bool or int is classified
\* float when it follows the float grammar, is an optionally signed .inf
\* spelling or is .nan in any letter case, and string otherwise.
C4_AnyCaseNan ==
    Classified /\ PlainText(node) /\ ret.value.type \notin {"null", "bool", "int"} =>
        IF \/ IsFloatGrammarText(node.value)
           \/ IsInfText(node.value)
           \/ node.value \in CaseVariants(T_nan)
        THEN ret.value.type = "float"
        ELSE ret.value.type = "string"

\* C4 amended: a plain text not classified null, bool or int is classified
\* float when it follows the float grammar, is .inf, .Inf or .INF with an
\* optional sign, or is spelled exactly .nan, .NaN or .NAN; every other text
\* (other letter cases of .nan and .inf included) is classified string.
C4_FloatGrammar ==
    Classified /\ PlainText(node) /\ ret.value.type \notin {"null", "bool", "int"} =>
        IF \/ IsFloatGrammarText(node.value)
           \/ IsInfText(node.value)
           \/ node.value \in NanSpellings
        THEN ret.value.type = "float"
        ELSE ret.value.type = "string"

\* C4 witness: the plain text .Nan was classified string.
C4_Witness ==
    /\ Classified /\ PlainText(node)
    /\ node.value = <<".", "N", "a", "n">> /\ ret.value.type = "string"

\* C5: parseYamlBoolean returns true for exactly true, True, TRUE, false for
\* exactly false, False, FALSE, and throws 'Invalid boolean' for every other
\* input.
C5_BooleanSpellings ==
    call = "parseYamlBoolean" =>
        CASE node.value \in {T_true, T_True, T_TRUE} -> ret = Return(JSBool(TRUE))
          [] node.value \in {T_false, T_False, T_FALSE} -> ret = Return(JSBool(FALSE))
          [] OTHER -> ret.thrown /\ ret.value.error = "Invalid boolean"
                         /\ ret.value.input = node.value

\* C5 witness: the text tRuE was rejected with 'Invalid boolean'.
C5_Witness ==
    /\ call = "parseYamlBoolean"
    /\ node.value = <<"t", "R", "u", "E">>
    /\ ret.thrown /\ ret.value.error = "Invalid boolean"

\* The text, after leading white space and an optional sign, begins with a
\* digit, with a point and a digit, or with the word Infinity.
HasNumericPrefix(v) ==
    LET u == Unsigned(TrimStart(v))
    IN  \/ u # <<>> /\ u[1] \in Digits
        \/ Len(u) >= 2 /\ u[1] = "." /\ u[2] \in Digits
        \/ StartsWith(u, <<"I", "n", "f", "i", "n", "i", "t", "y">>)

\* The text is more than one float literal: something is left over.
HasRemainder(v) == ~Test(StrDecimalLiteral, TrimStart(v))

\* C6 as stated: .nan, .NaN, .NAN give NaN, a .inf spelling in any letter
\* case gives plus infinity and minus infinity after a minus sign, and every
\* other input gives its float parse, with 'Invalid float' thrown whenever
\* the text has a non-numeric remainder.
C6_AnyCaseInfAndRemainder ==
    call = "parseYamlFloat" =>
        CASE node.value \in NanSpellings -> ret = Return(NaN)
          [] node.value \in CaseVariants(T_inf) -> ret = Return(Infinity(FALSE))
          [] node.value \in {<<"-">> \o v : v \in CaseVariants(T_inf)}
                -> ret = Return(Infinity(TRUE))
          [] OTHER -> IF HasRemainder(node.value)
                      THEN ret.thrown /\ ret.value.error = "Invalid float"
                      ELSE ret = Return(parseFloat(node.value))

\* C6 amended: .nan, .NaN, .NAN give NaN; .inf, .Inf, .INF, bare or after a
\* plus sign, give plus infinity and after a minus sign minus infinity; every
\* other input gives the float parse of its longest numeric prefix, and
\* 'Invalid float' is thrown exactly when the text has no numeric prefix (a
\* remainder after a numeric prefix is dropped; other letter cases of .inf
\* are rejected).
C6_FloatSpellings ==
    call = "parseYamlFloat" =>
        CASE node.value \in NanSpellings -> ret = Return(NaN)
          [] node.value \in InfSpellings \cup {<<"+">> \o v : v \in InfSpellings}
                -> ret = Return(Infinity(FALSE))
          [] node.value \in {<<"-">> \o v : v \in InfSpellings}
                -> ret = Return(Infinity(TRUE))
          [] OTHER -> IF HasNumericPrefix(node.value)
                      THEN ret = Return(parseFloat(node.value))
                      ELSE ret.thrown /\ ret.value.error = "Invalid float"
                              /\ ret.value.input = node.value

\* C6 witness: the text 1.5x was parsed to the number 1.5.
C6_Witness ==
    /\ call = "parseYamlFloat"
    /\ node.value = <<"1", ".", "5", "x">> /\ ret = Return(Finite(FALSE, 15, -1))

\* The number a text of the int grammars denotes.
Denotes(v) ==
    IF IsOctalText(v) THEN Finite(FALSE, DigitsValue(Substring(v, 2), 8), 0)
    ELSE IF IsHexText(v) THEN Finite(FALSE, DigitsValue(Substring(v, 2), 16), 0)
    ELSE Finite(v[1] = "-", DigitsValue(Unsigned(v), 10), 0)

\* C7: for a plain text classified int, parseYamlInteger returns the number
\* the text denotes (base 10 for the signed decimal grammar, base 8 after 0o,
\* base 16 after 0x); it throws 'Invalid integer' exactly when the parse
\* gives not-a-number.
C7_IntegerValue ==
    call = "parseYamlInteger" =>
        /\ ret.thrown <=> isNaN(safeParseYamlInteger(node.value))
        /\ ret.thrown => ret.value.error = "Invalid integer" /\ ret.value.input = node.value
        /\ Plain(node) /\ determineScalarType(node) = "int"
              => ret = Return(Denotes(node.value))

\* C7 witness: the plain text 0o17, classified int, was parsed to 15.
C7_Witness ==
    /\ call = "parseYamlInteger" /\ Plain(node) /\ determineScalarType(node) = "int"
    /\ node.value = <<"0", "o", "1", "7">> /\ ret = Return(Finite(FALSE, 15, 0))

(***************************************************************************)
(* Properties of parse (checked under ParseSpec).                          *)
(***************************************************************************)
Returned == pc = "done" /\ ~result.thrown
RootPresent == result.value.root.type # "undefined"
IsDuplicateKey(e) == e.reason = "duplicate key"
IsOtherReason(e) == e.reason # "duplicate key"
IsInvalidSymbol(d) == d.message = "Expected a YAML object, array or literal"

\* The errors of the returned document that come from tokenizer exceptions.
ConvertedErrors ==
    IF RootPresent THEN result.value.errors ELSE Tail(result.value.errors)

\* C8: in a document that parse returns, the warnings are the tokenizer
\* exceptions whose reason is exactly 'duplicate key' and the errors the other
\* exceptions, each list in the tokenizer's order; so the warnings are as many
\* as the duplicate-key exceptions, and a document with a root whose
\* exceptions are all duplicate keys has no error and at least one warning.
C8_ErrorsPartitioned ==
    Returned =>
        LET dups == SelectSeq(yamlDoc.errors, IsDuplicateKey)
            others == SelectSeq(yamlDoc.errors, IsOtherReason)
        IN  /\ Len(result.value.warnings) = Len(dups)
            /\ \A i \in 1..Len(dups) : result.value.warnings[i] = convertError(dups[i])
            /\ Len(ConvertedErrors) = Len(others)
            /\ \A i \in 1..Len(others) : ConvertedErrors[i] = convertError(others[i])
            /\ Len(result.value.warnings) + Len(ConvertedErrors) = Len(yamlDoc.errors)
            /\ RootPresent /\ yamlDoc.errors # <<>> /\ others = <<>>
                  => result.value.errors = <<>> /\ Len(result.value.warnings) >= 1

\* C8 witness: a mapping with a 'duplicate key' exception followed by a
\* 'duplicated mapping key' exception was parsed to one warning and one error.
C8_Witness ==
    /\ Returned /\ RootPresent /\ result.value.root.type = "object"
    /\ Len(yamlDoc.errors) = 2
    /\ yamlDoc.errors[1].reason = "duplicate key"
    /\ yamlDoc.errors[2].reason = "duplicated mapping key"
    /\ Len(result.value.warnings) = 1 /\ Len(result.value.errors) = 1

C10_NothingEscapes ==
    pc = "done" => ~result.thrown /\ result.value.k = "JSONDocument"


(***************************************************************************)
(* Properties of aliases (checked under TreeSpec and ParseSpec).           *)
(***************************************************************************)
RECURSIVE AliasesOf(_)
RECURSIVE AliasesOfList(_)

\* The aliases of a graph.
AliasesOf(n) ==
    CASE n.kind = "ANCHOR_REF" -> {n}
      [] n.kind = "SEQ" -> AliasesOfList(n.items)
      [] n.kind = "MAP" -> AliasesOfList(n.mappings)
      [] n.kind = "MAPPING" -> AliasesOf(n.value)
      [] OTHER -> {}

AliasesOfList(list) ==
    IF list = <<>> THEN {} ELSE AliasesOf(list[1]) \cup AliasesOfList(Tail(list))

IsResolved(alias) == alias.value.kind # "undefined"

RECURSIVE Expand(_)
RECURSIVE ExpandList(_)

\* The graph with each resolved alias replaced by the node it refers to.
Expand(n) ==
    CASE n.kind = "ANCHOR_REF" -> IF IsResolved(n) THEN n.value ELSE n
      [] n.kind = "SEQ" -> [n EXCEPT !.items = ExpandList(n.items)]
      [] n.kind = "MAP" -> [n EXCEPT !.mappings = ExpandList(n.mappings)]
      [] n.kind = "MAPPING" -> [n EXCEPT !.value = Expand(n.value)]
      [] OTHER -> n

ExpandList(list) ==
    IF list = <<>> THEN <<>> ELSE <<Expand(list[1])>> \o ExpandList(Tail(list))

RECURSIVE OnlyAliasesMissing(_)
\* Every node of the graph but its aliases is one the normalizer builds a
\* node for: no include reference, no absent sequence item.
OnlyAliasesMissing(n) ==
    CASE n.kind \in {"SCALAR", "ANCHOR_REF"} -> TRUE
      [] n.kind = "SEQ" -> \A i \in DOMAIN n.items : OnlyAliasesMissing(n.items[i])
      [] n.kind = "MAP" -> \A i \in DOMAIN n.mappings : OnlyAliasesMissing(n.mappings[i])
      [] n.kind = "MAPPING" -> n.value.kind = "undefined" \/ OnlyAliasesMissing(n.value)
      [] OTHER -> FALSE

\* C11: when every alias of a document (with no other trouble and no
\* tokenizer exception) has its anchor defined earlier, parse returns a
\* document without errors and warnings whose root has the value of the
\* document with each alias replaced by the anchored literal.
C11_AliasExpanded ==
    (/\ pc = "done"
     /\ yamlDoc.errors = <<>>
     /\ OnlyAliasesMissing(yamlDoc.node)
     /\ AliasesOf(yamlDoc.node) # {}
     /\ \A a \in AliasesOf(yamlDoc.node) : IsResolved(a))
    => /\ ~result.thrown
       /\ result.value.errors = <<>>
       /\ result.value.warnings = <<>>
       /\ result.value.root.type # "undefined"
       /\ LET expanded == parse([node |-> Expand(yamlDoc.node), errors |-> <<>>])
          IN  /\ ~expanded.thrown
              /\ getValue(result.value.root) = getValue(expanded.value.root)

\* C12: parse of a document that holds an alias without anchor (and no other
\* trouble) returns a document with at least one entry in errors.
C12_UnresolvedReported ==
    (/\ pc = "done"
     /\ OnlyAliasesMissing(yamlDoc.node)
     /\ \E a \in AliasesOf(yamlDoc.node) : ~IsResolved(a))
    => /\ ~result.thrown
       /\ Len(result.value.errors) >= 1

(***************************************************************************)
(* Properties of the normalized tree (checked under ParseSpec and          *)
(* TreeSpec).                                                              *)
(***************************************************************************)
RECURSIVE NoReferences(_)
\* The graph holds no alias and no include reference.
NoReferences(n) ==
    CASE n.kind \in {"SCALAR", "undefined"} -> TRUE
      [] n.kind = "SEQ" -> \A i \in DOMAIN n.items : NoReferences(n.items[i])
      [] n.kind = "MAP" -> \A i \in DOMAIN n.mappings : NoReferences(n.mappings[i])
      [] n.kind = "MAPPING" -> NoReferences(n.value)
      [] OTHER -> FALSE

\* C13: parse of a sequence without references returns an array with one
\* item per source item, in order, item i at location i, and a null node
\* where the source item is elided.
C13_OneItemPerSourceItem ==
    (pc = "done" /\ yamlDoc.node.kind = "SEQ" /\ NoReferences(yamlDoc.node))
    => /\ ~result.thrown
       /\ result.value.root.type = "array"
       /\ Len(result.value.root.items) = Len(yamlDoc.node.items)
       /\ \A i \in DOMAIN yamlDoc.node.items :
             LET item == result.value.root.items[i]
             IN  /\ item.id = <<i>>
                 /\ item.location = NumLoc(i - 1)
                 /\ yamlDoc.node.items[i].kind = "undefined" => item.type = "null"

RECURSIVE MappingPaths(_, _)
\* The identities of the mapping entries of the graph n, whose identity is id.
MappingPaths(n, id) ==
    CASE n.kind = "SEQ" -> UNION {MappingPaths(n.items[i], id \o <<i>>) : i \in DOMAIN n.items}
      [] n.kind = "MAP" ->
            UNION {MappingPaths(n.mappings[i], id \o <<i>>) : i \in DOMAIN n.mappings}
      [] n.kind = "MAPPING" -> {id} \cup MappingPaths(n.value, id \o <<1>>)
      [] OTHER -> {}

RECURSIVE GraphAt(_, _)
\* The tokenizer node of the given identity.
GraphAt(n, id) ==
    IF id = <<>> THEN n
    ELSE CASE n.kind = "SEQ" -> GraphAt(n.items[Head(id)], Tail(id))
           [] n.kind = "MAP" -> GraphAt(n.mappings[Head(id)], Tail(id))
           [] n.kind = "MAPPING" -> GraphAt(IF Head(id) = 0 THEN n.key ELSE n.value, Tail(id))

\* What C14 says of the property built for the mapping entry m.
PropertyOf(p, m) ==
    /\ p.type = "property"
    /\ p.key.type = "string" /\ p.key.isKey
    /\ p.key.value = JSString(m.key.value)
    /\ p.key.start = m.key.startPosition /\ p.key.end = m.key.endPosition
    /\ IF m.value.kind = "undefined"
       THEN p.value.type = "null" /\ p.value.start = m.startPosition
                                  /\ p.value.end = m.endPosition
       ELSE LET built == recursivelyBuildAst(Ref(p.id), m.value, p.id \o <<1>>)
            IN  ~built.thrown /\ p.value = [built.value EXCEPT !.location = p.value.location]
    /\ p.value.location = StrLoc(m.key.value)

RECURSIVE ExpectedPath(_, _)
\* What the tokenizer graph n contributes on the way down to the node of
\* identity id: the index of each sequence item and the key text of each
\* mapping entry, nothing for the step from a map to its entry.
ExpectedPath(n, id) ==
    IF id = <<>> THEN <<>>
    ELSE CASE n.kind = "SEQ" ->
                <<NumLoc(Head(id) - 1)>> \o ExpectedPath(n.items[Head(id)], Tail(id))
           [] n.kind = "MAP" -> ExpectedPath(n.mappings[Head(id)], Tail(id))
           [] n.kind = "MAPPING" ->
                <<StrLoc(n.key.value)>>
                    \o ExpectedPath(IF Head(id) = 0 THEN n.key ELSE n.value, Tail(id))

PropertiesOf(root) == {p \in NodesOf(root) : p.type = "property"}

\* C15: getPath of a node is the sequence of locations from the root down
\* to it, a key text for each property passed and an index for each array
\* item, nothing for the property node itself; the key and the value of one
\* property have the same path, which ends in the key text.
C15_PathFromRoot ==
    /\ query.op = "getPath" => query.path = ExpectedPath(yamlDoc.node, query.id)
    /\ HasTree =>
          \A p \in PropertiesOf(result.value.root) :
              LET path == getPath(result.value.root, p.key)
              IN  /\ path = getPath(result.value.root, p.value)
                  /\ path = Append(getPath(result.value.root, p), StrLoc(p.key.value.s))

C15_Witness ==
    /\ query.op = "getPath"
    /\ query.id = <<1, 1, 1>>
    /\ query.path = <<StrLoc(<<"a">>), NumLoc(0)>>
    /\ yamlDoc.node.kind = "MAP"
    /\ yamlDoc.node.mappings[1].value.kind = "SEQ"

(***************************************************************************)
(* Properties of the offset lookups (checked under TreeSpec).  The depth   *)
(* of a node is the length of its identity.                                *)
(***************************************************************************)
Contains(n, offset) == n.start <= offset /\ offset < n.end
ContainsEndInclusive(n, offset) == n.start <= offset /\ offset <= n.end
Depth(n) == Len(n.id)

IsPrefix(a, b) == Len(a) <= Len(b) /\ SubSeq(b, 1, Len(a)) = a
\* n is the node p or lies under it.
Inside(n, p) == IsPrefix(p.id, n.id)
IsLeaf(n) == getChildNodes(n) = <<>>
\* The properties whose span ends at the offset.
EndingAt(root, offset) == {p \in PropertiesOf(root) : p.end = offset}

\* What the end-inclusive lookup returned: no node when the document has no
\* root or the offset is outside the root's [start, end]; otherwise a node
\* with start <= offset <= end than which no such node lies deeper, and one
\* inside the property whose span ends at the offset.
InclusiveFound ==
    LET root == result.value.root
    IN  IF root.type = "undefined" \/ ~ContainsEndInclusive(root, query.offset)
        THEN query.found = UndefinedAst
        ELSE /\ query.found \in NodesOf(root)
             /\ ContainsEndInclusive(query.found, query.offset)
             /\ \A n \in NodesOf(root) :
                   ContainsEndInclusive(n, query.offset) => Depth(n) <= Depth(query.found)
             /\ \A p \in EndingAt(root, query.offset) : Inside(query.found, p)

\* Strictly inside a leaf the two lookups return the same node.
ModesAgreeInLeaf ==
    result.value.root.type # "undefined" =>
        \A n \in NodesOf(result.value.root) :
            (IsLeaf(n) /\ n.start < query.offset /\ query.offset < n.end)
            => query.found = getNodeFromOffset(result.value, query.offset)

SmallerThan(array, x) == Cardinality({j \in DOMAIN array : array[j] < x})

\* C18: binarySearch returns the index of the sought number when the array
\* holds it, and otherwise the encoded index before which it would be
\* inserted; the encoding is one-to-one and never a valid index.
C18_IndexOrInsertionPoint ==
    /\ calc.op = "binarySearch" =>
          IF \E j \in DOMAIN calc.array : calc.array[j] = calc.sought
          THEN /\ calc.index \in 0..(Len(calc.array) - 1)
               /\ calc.array[calc.index + 1] = calc.sought
          ELSE calc.index = insertionPointReturnValue(SmallerThan(calc.array, calc.sought))
    /\ \A i \in 0..(MaxValue + 1) :
          /\ insertionPointReturnValue(i) \notin 0..MaxValue
          /\ \A j \in 0..(MaxValue + 1) :
                insertionPointReturnValue(i) = insertionPointReturnValue(j) => i = j

C18_Witness ==
    /\ calc.op = "binarySearch"
    /\ calc.array = <<1, 2, 3>>
    /\ calc.sought = 4
    /\ calc.index = insertionPointReturnValue(3)
    /\ calc.index = -4

\* The offsets that follow a line terminator: \n alone or the \n of \r\n.
AfterTerminator(text) == {i \in 1..Len(text) : text[i] = "\n"}

\* C19: getLineStartPositions returns a strictly ascending list that starts
\* with 0 and holds besides that 0 exactly the offsets that follow a line
\* terminator, one for each \n and one for each \r\n.
C19_LineStarts ==
    calc.op = "getLineStartPositions" =>
        LET starts == calc.lineStartPositions
        IN  /\ starts[1] = 0
            /\ \A i \in 1..(Len(starts) - 1) : starts[i] < starts[i + 1]
            /\ {starts[i] : i \in 2..Len(starts)} = AfterTerminator(calc.text)
            /\ \A i \in 1..(Len(calc.text) - 1) :
                  (calc.text[i] = "\r" /\ calc.text[i + 1] = "\n")
                  => \A k \in DOMAIN starts : starts[k] # i

C19_Witness ==
    /\ calc.op = "getLineStartPositions"
    /\ calc.text = <<"\n", "\r", "\n", "a">>
    /\ calc.lineStartPositions = <<0, 1, 3>>

\* C20: getPosition of an offset of the text returns the index of the
\* greatest line start that is not after the offset and, as the column, the
\* distance from that line start.
C20_LineAndColumn ==
    calc.op = "getPosition" =>
        LET starts == calc.lineStartPositions
            line == calc.position.line
            column == calc.position.column
        IN  /\ line \in 0..(Len(starts) - 1)
            /\ starts[line + 1] <= calc.pos
            /\ \A k \in DOMAIN starts : starts[k] <= calc.pos => k - 1 <= line
            /\ column = calc.pos - starts[line + 1]
            /\ starts[line + 1] + column = calc.pos
            /\ column >= 0
            /\ (\E k \in DOMAIN starts : starts[k] = calc.pos) => column = 0
            /\ calc.pos = 0 => line = 0 /\ column = 0

C20_Witness ==
    /\ calc.op = "getPosition"
    /\ calc.text = <<"a", "\n", "a", "a">>
    /\ calc.pos = 3
    /\ calc.position = [line |-> 1, column |-> 1]

(***************************************************************************)
(* ErrorSpec: the tokenizer raises one exception on a text of at most      *)
(* MaxSourceLen characters and convertError turns it into a diagnostic.    *)
(* The mark's position is an index of the tokenizer's buffer, the text     *)
(* with the two characters appended to it.                                 *)
(***************************************************************************)
MaxSourceLen == 6

Reasons == {"duplicate key", "duplicated mapping key", "unexpected end of the stream"}

ErrorInit ==
    /\ \E length \in 0..MaxSourceLen : \E position \in 0..(length + 1) :
         \E reason \in Reasons :
            diag = [op |-> "thrown", length |-> length,
                    e |-> YAMLException(reason, position, length)]
    /\ service = NoService /\ edit = NoEdit
    /\ calc = NoCalc
    /\ node = UndefinedNode
    /\ call = "none"
    /\ ret = NoRet
    /\ yamlDoc = NoDoc
    /\ pc = "start"
    /\ result = NoResult
    /\ query = NoQuery

ConvertError ==
    /\ diag.op = "thrown"
    /\ diag' = [op |-> "convertError", length |-> diag.length, e |-> diag.e,
                error |-> convertError(diag.e)]
    /\ UNCHANGED <<node, call, ret, yamlDoc, pc, result, query, calc, service, edit>>

ErrorNext == ConvertError

ErrorSpec == ErrorInit /\ [][ErrorNext]_vars

SpanWithin(n, p) == p.start <= n.start /\ n.end <= p.end
InSourceOrder(children) ==
    \A i, j \in DOMAIN children : i < j => children[i].end <= children[j].start
Elided(p) ==
    p.type = "property" /\ GraphAt(yamlDoc.node, p.id).value.kind = "undefined"

\* C25: in every tree parse returns, each node's span lies within the span
\* of the node that holds it, and the children of one node (the items of an
\* array, the properties of an object, the key and the value of a property)
\* do not overlap and follow each other in source order; so it is for a
\* property whose value is elided, which spans its key.
C25_SpansNested ==
    HasTree =>
        \A n \in NodesOf(result.value.root) :
            LET children == getChildNodes(n)
            IN  /\ \A i \in DOMAIN children : SpanWithin(children[i], n)
                /\ InSourceOrder(children)
                /\ Elided(n) => n.start = n.key.start /\ n.end = n.key.end

(***************************************************************************)
(* Properties of the normalization of one scalar (checked under            *)
(* ScalarSpec).                                                            *)
(***************************************************************************)
Normalized == call = "recursivelyBuildAst" /\ node.kind = "SCALAR"

\* C26: a scalar is normalized to the leaf of its classification: null to a
\* null node, bool to a boolean node holding the truth value of its
\* spelling, int to a number node with isInteger, float to a number node
\* without isInteger, string to a string node that is no key and holds the
\* scalar's text; the leaf has the scalar's start and end and location null.
C26_LeafOfClassification ==
    Normalized =>
        LET type == determineScalarType(node)
            leaf == ret.value
        IN  /\ ~ret.thrown
            /\ leaf.start = node.startPosition /\ leaf.end = node.endPosition
            /\ leaf.location = NullLoc
            /\ CASE type = "null" -> leaf.type = "null"
                 [] type = "bool" ->
                       /\ leaf.type = "boolean"
                       /\ leaf.value = JSBool(node.value \in {T_true, T_True, T_TRUE})
                 [] type = "int" -> leaf.type = "number" /\ leaf.isInteger
                 [] type = "float" -> leaf.type = "number" /\ ~leaf.isInteger
                 [] type = "string" ->
                       /\ leaf.type = "string" /\ ~leaf.isKey
                       /\ leaf.value = ValueOf(node)

\* C26 witness: the plain text 1e1 became a number node that is no integer,
\* the plain text 0x1 one that is.
C26_Witness ==
    /\ Normalized /\ Plain(node) /\ ~ret.thrown
    /\ \/ node.value = <<"1", "e", "1">> /\ ret.value.type = "number"
                                         /\ ~ret.value.isInteger
       \/ node.value = <<"0", "x", "1">> /\ ret.value.type = "number"
                                         /\ ret.value.isInteger

\* C29: the classifier and the literal parsers agree: on a text classified
\* bool, int or float the matching parser returns a value and does not
\* throw, so normalizing a scalar throws nothing.
C29_ParsersAccept ==
    LET type == determineScalarType(node)
    IN  /\ call = "parseYamlBoolean" /\ type = "bool" => ~ret.thrown
        /\ call = "parseYamlInteger" /\ type = "int" => ~ret.thrown
        /\ call = "parseYamlFloat" /\ type = "float" => ~ret.thrown
        /\ Normalized => ~ret.thrown

\* C29 witness: the plain text -.inf, classified float, was parsed.
C29_Witness ==
    /\ call = "parseYamlFloat" /\ Plain(node) /\ ~ret.thrown
    /\ node.value = <<"-", ".", "i", "n", "f">>
    /\ determineScalarType(node) = "float"

\* C28: in every tree parse returns the root has no parent and location
\* null, and every other node's parent is the node that holds it: the array
\* for an item, the object for a property, the property for its key and for
\* its value, the null node made for an elided value included.
C28_ParentHoldsChild ==
    HasTree =>
        /\ result.value.root.parent = NullRef
        /\ result.value.root.location = NullLoc
        /\ \A n \in NodesOf(result.value.root) :
              LET children == getChildNodes(n)
              IN  \A i \in DOMAIN children : children[i].parent = Ref(n.id)

(***************************************************************************)
(* NoNodeSpec: recursivelyBuildAst and parse on the nodes that have no     *)
(* counterpart in the tree: a reference, a node whose kind is none of the  *)
(* cases of the switch, and the absent node (what safeLoad returns for a   *)
(* text without document).                                                 *)
(***************************************************************************)
MaxStart == 2

NoNodeKinds == OtherKinds \cup {"UNRECOGNIZED"}

NoNodeInputs ==
    {UndefinedNode}
        \cup {[kind |-> k, startPosition |-> s, endPosition |-> s + l] :
                 k \in NoNodeKinds, s \in 0..MaxStart, l \in 1..MaxLen}

NoNodeInit ==
    /\ diag = NoDiag /\ service = NoService /\ edit = NoEdit
    /\ node \in NoNodeInputs
    /\ IF node = UndefinedNode THEN yamlDoc = [node |-> node, errors |-> <<>>]
       ELSE \E es \in ExceptionLists(node.endPosition) :
               yamlDoc = [node |-> node, errors |-> es]
    /\ call = "none"
    /\ ret = NoRet
    /\ pc = "start"
    /\ result = NoResult
    /\ query = NoQuery
    /\ calc = NoCalc

NoNodeNext ==
    \/ RecursivelyBuildAst
    \/ Parse

NoNodeSpec == NoNodeInit /\ [][NoNodeNext]_vars

(***************************************************************************)
(* Properties of the nodes without counterpart (checked under NoNodeSpec). *)
(***************************************************************************)
ConvertedOf(es) == [i \in DOMAIN es |-> convertError(es[i])]

\* C30: normalizing a reference, a node of an unrecognized kind or the absent
\* node returns no node and nothing else; with such a node as the document
\* root parse returns a document without root whose errors are the
\* root-missing error followed by the converted exceptions of the tokenizer
\* and whose warnings are the converted duplicate-key exceptions.
C30_NoNodeNoEffect ==
    /\ call = "recursivelyBuildAst" => ret = Return(UndefinedAst)
    /\ pc = "done" =>
          /\ ~result.thrown
          /\ result.value.root = UndefinedAst
          /\ result.value.errors =
                <<InvalidSymbol(yamlDoc.node.startPosition, yamlDoc.node.endPosition)>>
                    \o ConvertedOf(SelectSeq(yamlDoc.errors, IsOtherReason))
          /\ result.value.warnings = ConvertedOf(SelectSeq(yamlDoc.errors, IsDuplicateKey))

(***************************************************************************)
(* ServiceSpec: one language service made by getLanguageService; configure *)
(* and parseJSONDocument are called on it in any order, at most MaxCalls   *)
(* times.  The service keeps the flag disallowComments and the external    *)
(* schemas registered by the last configure; log is the list of the calls  *)
(* made, each parseJSONDocument with the configuration it handed to the    *)
(* JSON parser.                                                            *)
(***************************************************************************)
MaxCalls == 4

\* LanguageSettings: allowComments and schemas are optional.
AllowComments == {JSBool(TRUE), JSBool(FALSE), JSUndefined}
SchemaLists == {JSUndefined, [k |-> "array", items |-> <<"uri">>]}
LanguageSettings == [allowComments : AllowComments, schemas : SchemaLists]

\* !v for a boolean or undefined v.
Not(v) == IF v.k = "boolean" THEN ~v.b ELSE TRUE

\* Variant: the flag is set to allowComments itself.
configure_notNegated(s, settings) ==
    [s EXCEPT !.schemas = IF settings.schemas.k = "array" THEN settings.schemas.items
                          ELSE <<>>,
              !.disallowComments = ~Not(settings.allowComments)]

configure(s, settings) ==
    [s EXCEPT !.schemas = IF settings.schemas.k = "array" THEN settings.schemas.items
                          ELSE <<>>,
              !.disallowComments = Not(settings.allowComments)]

\* The configuration parseJSON is called with.
parseJSONDocument(s) == [disallowComments |-> s.disallowComments]

getLanguageService ==
    [created |-> TRUE, disallowComments |-> FALSE, schemas |-> <<>>, log |-> <<>>]

ServiceInit ==
    /\ service = getLanguageService
    /\ diag = NoDiag /\ edit = NoEdit
    /\ calc = NoCalc
    /\ node = UndefinedNode
    /\ call = "none"
    /\ ret = NoRet
    /\ yamlDoc = NoDoc
    /\ pc = "start"
    /\ result = NoResult
    /\ query = NoQuery

Configure ==
    /\ Len(service.log) < MaxCalls
    /\ \E settings \in LanguageSettings :
          service' = [configure(service, settings) EXCEPT
                         !.log = Append(@, [op |-> "configure", settings |-> settings])]
    /\ UNCHANGED <<node, call, ret, yamlDoc, pc, result, query, calc, diag, edit>>

ParseJSONDocument ==
    /\ Len(service.log) < MaxCalls
    /\ service' = [service EXCEPT
                      !.log = Append(@, [op |-> "parseJSONDocument",
                                         config |-> parseJSONDocument(service)])]
    /\ UNCHANGED <<node, call, ret, yamlDoc, pc, result, query, calc, diag, edit>>

ServiceNext ==
    \/ Configure
    \/ ParseJSONDocument

ServiceSpec == ServiceInit /\ [][ServiceNext]_vars

(***************************************************************************)
(* Properties of the language service (checked under ServiceSpec).         *)
(***************************************************************************)
\* The calls of configure among the first n calls.
ConfiguresBefore(log, n) == {i \in 1..n : log[i].op = "configure"}

\* What the claim expects of the parse that is call number i.
ExpectedDisallow(log, i) ==
    LET before == ConfiguresBefore(log, i - 1)
    IN  IF before = {} THEN FALSE
        ELSE Not(log[Max(before)].settings.allowComments)

ParsesAsConfigured ==
    service.created =>
        \A i \in DOMAIN service.log :
            service.log[i].op = "parseJSONDocument" =>
                service.log[i].config.disallowComments = ExpectedDisallow(service.log, i)

ParseKeepsFlag ==
    (/\ service.created
     /\ Len(service'.log) = Len(service.log) + 1
     /\ service'.log[Len(service'.log)].op = "parseJSONDocument")
        => service'.disallowComments = service.disallowComments

\* C27: after any sequence of configure and parseJSONDocument calls on one
\* service, parseJSONDocument parses with disallowComments the negation of
\* allowComments of the most recent configure, and with false when configure
\* was never called; a parse never changes the flag.
C27_FlagFollowsConfigure == []ParsesAsConfigured /\ [][ParseKeepsFlag]_vars

\* C27 witness: configure with allowComments = true, a parse without the
\* flag, configure without allowComments, a parse with the flag.
C27_Witness ==
    /\ service.created /\ Len(service.log) = 4
    /\ service.log[1].op = "configure"
    /\ service.log[1].settings.allowComments = JSBool(TRUE)
    /\ service.log[2] = [op |-> "parseJSONDocument", config |-> [disallowComments |-> FALSE]]
    /\ service.log[3].op = "configure"
    /\ service.log[3].settings.allowComments = JSUndefined
    /\ service.log[4] = [op |-> "parseJSONDocument", config |-> [disallowComments |-> TRUE]]

(***************************************************************************)
(* The formatter (format) and the two functions of js-yaml it calls,       *)
(* loadAll and safeDump, on a subset of YAML: the scalars null, true,      *)
(* false, decimal integers and strings of letters and digits, plain or     *)
(* quoted; sequences of scalars; mappings of scalars, sequences and        *)
(* mappings; each in block style (one entry per line, nested entries       *)
(* indented) or in flow style ([a, b] and {a: b} on one line); documents   *)
(* framed by the %YAML directive and the markers --- and ... .  A text is  *)
(* a sequence of characters; a loaded document is a JavaScript value.      *)
(***************************************************************************)
JSNumber(n) == [k |-> "number", n |-> n]
JSArray(items) == [k |-> "array", items |-> items]
\* An object lists its properties in insertion order.
JSObject(pairs) == [k |-> "object", pairs |-> pairs]
Pair(key, value) == [key |-> key, value |-> value]

IsScalar(v) == v.k \in {"null", "boolean", "number", "string"}
IsEmptyCollection(v) ==
    \/ v.k = "array" /\ v.items = <<>>
    \/ v.k = "object" /\ v.pairs = <<>>

Spaces(n) == [i \in 1..n |-> " "]
LF == <<"\n">>
CRLF == <<"\r", "\n">>

RECURSIVE JoinWith(_, _)
\* texts.join(separator)
JoinWith(texts, separator) ==
    IF texts = <<>> THEN <<>>
    ELSE IF Len(texts) = 1 THEN texts[1]
    ELSE texts[1] \o separator \o JoinWith(Tail(texts), separator)

RECURSIVE Terminated(_, _)
\* Every line followed by the line terminator.
Terminated(lines, eol) ==
    IF lines = <<>> THEN <<>>
    ELSE lines[1] \o eol \o Terminated(Tail(lines), eol)

DigitChar(d) == CHOOSE c \in Digits : DigitVal(c) = d

RECURSIVE IntText(_)
IntText(n) == IF n < 10 THEN <<DigitChar(n)>> ELSE IntText(n \div 10) \o <<DigitChar(n % 10)>>

T_document == <<"-", "-", "-">>
T_end == <<".", ".", ".">>
T_directive == <<"%", "Y", "A", "M", "L", " ", "1", ".", "2">>

\* The value a plain scalar of the subset resolves to.
IsDecimal(text) ==
    /\ text # <<>>
    /\ \A i \in DOMAIN text : text[i] \in Digits
    /\ Len(text) > 1 => text[1] # "0"

resolvePlain(text) ==
    IF text \in {<<>>, T_tilde, T_null, T_Null, T_NULL} THEN JSNull
    ELSE IF text \in {T_true, T_True, T_TRUE} THEN JSBool(TRUE)
    ELSE IF text \in {T_false, T_False, T_FALSE} THEN JSBool(FALSE)
    ELSE IF IsDecimal(text) THEN JSNumber(DigitsValue(text, 10))
    ELSE JSString(text)

\* How a scalar is written.  The dumper writes a string plain when it reads
\* back as that string and in single quotes otherwise; a source text may
\* have every string in double quotes.
ScalarText(v, doubleQuoted) ==
    CASE v.k = "null" -> T_null
      [] v.k = "boolean" -> IF v.b THEN T_true ELSE T_false
      [] v.k = "number" -> IntText(v.n)
      [] v.k = "string" ->
            IF doubleQuoted THEN <<"\"">> \o v.s \o <<"\"">>
            ELSE IF resolvePlain(v.s) = JSString(v.s) THEN v.s
            ELSE <<"'">> \o v.s \o <<"'">>

RECURSIVE FlowTexts(_, _)
RECURSIVE FlowText(_, _)
\* A value on one line: a scalar, [item, item] or {key: value, key: value}.
\* style.tight leaves out the space after a comma.
FlowText(v, style) ==
    LET comma == IF style.tight THEN <<",">> ELSE <<",", " ">>
    IN  CASE v.k = "array" ->
                <<"[">> \o JoinWith(FlowTexts(v.items, style), comma) \o <<"]">>
          [] v.k = "object" ->
                <<"{">> \o JoinWith(FlowTexts(v.pairs, style), comma) \o <<"}">>
          [] OTHER -> ScalarText(v, style.doubleQuoted)

\* The flow texts of the items of an array or of the pairs of an object.
FlowTexts(list, style) ==
    IF list = <<>> THEN <<>>
    ELSE LET x == list[1]
             text == IF "key" \in DOMAIN x
                     THEN ScalarText(JSString(x.key), style.doubleQuoted)
                              \o <<":", " ">> \o FlowText(x.value, style)
                     ELSE FlowText(x, style)
         IN  <<text>> \o FlowTexts(Tail(list), style)

RECURSIVE BlockLines(_, _, _)
RECURSIVE BlockEntries(_, _, _)
\* The lines of a collection that is not empty, in block style, indented by
\* column spaces.  A nested collection that is not empty starts on the line
\* after its key, style.indent spaces deeper.
BlockLines(v, column, style) ==
    BlockEntries(IF v.k = "array" THEN v.items ELSE v.pairs, column, style)

BlockEntries(list, column, style) ==
    IF list = <<>> THEN <<>>
    ELSE LET x == list[1]
             flowStyle == [style EXCEPT !.tight = FALSE]
             lines ==
                IF "key" \in DOMAIN x
                THEN LET key == ScalarText(JSString(x.key), style.doubleQuoted)
                     IN  IF IsScalar(x.value) \/ IsEmptyCollection(x.value)
                         THEN <<Spaces(column) \o key \o <<":", " ">>
                                    \o FlowText(x.value, flowStyle)>>
                         ELSE <<Spaces(column) \o key \o <<":">> >>
                                  \o BlockLines(x.value, column + style.indent, style)
                ELSE <<Spaces(column) \o <<"-", " ">> \o FlowText(x, flowStyle)>>
         IN  lines \o BlockEntries(Tail(list), column, style)

\* The lines of one document in the given style.
Write(v, style) ==
    IF style.flow \/ IsScalar(v) \/ IsEmptyCollection(v)
    THEN <<FlowText(v, style)>>
    ELSE BlockLines(v, 0, style)

\* Variant: a document that is null is written as nothing.
safeDump_nullAsNothing(value, options) ==
    IF value = JSNull THEN LF
    ELSE Terminated(Write(value, [flow |-> FALSE, indent |-> options.indent,
                                  doubleQuoted |-> FALSE, tight |-> FALSE]),
                    LF)

\* jsyaml.safeDump(value, {indent}): block style, no double quotes, every
\* line ended by a line feed.
safeDump(value, options) ==
    Terminated(Write(value, [flow |-> FALSE, indent |-> options.indent,
                             doubleQuoted |-> FALSE, tight |-> FALSE]),
               LF)

(***************************************************************************)
(* jsyaml.loadAll on the subset.  A parse gives [ok, v] and, inside a      *)
(* line, the index after what was read.                                    *)
(***************************************************************************)
Failed == [ok |-> FALSE, v |-> JSNull, next |-> 0]
Read(v, next) == [ok |-> TRUE, v |-> v, next |-> next]

\* The first index from i on that holds no space, Len(s) + 1 when none.
SkipSpaces(s, i) ==
    IF \E j \in i..Len(s) : s[j] # " "
    THEN CHOOSE j \in i..Len(s) : s[j] # " " /\ \A m \in i..(j - 1) : s[m] = " "
    ELSE Len(s) + 1

Blank(s) == SkipSpaces(s, 1) > Len(s)

\* s without the spaces at its two ends.
Trim(s) ==
    IF Blank(s) THEN <<>>
    ELSE LET first == SkipSpaces(s, 1)
             last == CHOOSE j \in 1..Len(s) :
                        s[j] # " " /\ \A m \in (j + 1)..Len(s) : s[m] = " "
         IN  SubSeq(s, first, last)

\* A colon ends a key when a space or the end of the line follows it.
EndsKey(s, i) == s[i] = ":" /\ (i = Len(s) \/ s[i + 1] = " ")

\* Where the plain scalar that starts at i ends in flow style: before the
\* next comma, closing bracket or key colon.
PlainEnd(s, i) ==
    LET Stops(j) == s[j] \in {",", "]", "}"} \/ EndsKey(s, j)
    IN  IF \E j \in i..Len(s) : Stops(j)
        THEN CHOOSE j \in i..Len(s) : Stops(j) /\ \A m \in i..(j - 1) : ~Stops(m)
        ELSE Len(s) + 1

\* The index of the quote that closes the one at i, 0 when none.
ClosingQuote(s, i) ==
    IF \E j \in (i + 1)..Len(s) : s[j] = s[i]
    THEN CHOOSE j \in (i + 1)..Len(s) : s[j] = s[i] /\ \A m \in (i + 1)..(j - 1) : s[m] # s[i]
    ELSE 0

\* The property name a key becomes: String(key).
KeyString(v) ==
    CASE v.k = "string" -> v.s
      [] v.k = "number" -> IntText(v.n)
      [] v.k = "boolean" -> IF v.b THEN T_true ELSE T_false
      [] v.k = "null" -> T_null

HasKeyNamed(pairs, key) == \E i \in DOMAIN pairs : pairs[i].key = key

RECURSIVE ReadFlow(_, _)
RECURSIVE ReadItems(_, _, _)
RECURSIVE ItemRead(_, _, _)
RECURSIVE ReadPairs(_, _, _)
RECURSIVE KeyRead(_, _, _)
RECURSIVE ValueRead(_, _, _, _)

\* The flow node that starts at or after index i of the line s.
ReadFlow(s, i) ==
    LET j == SkipSpaces(s, i)
    IN  IF j > Len(s) THEN Failed
        ELSE CASE s[j] = "[" -> ReadItems(s, j + 1, <<>>)
               [] s[j] = "{" -> ReadPairs(s, j + 1, <<>>)
               [] s[j] \in {"\"", "'"} ->
                     LET q == ClosingQuote(s, j)
                     IN  IF q = 0 THEN Failed
                         ELSE Read(JSString(SubSeq(s, j + 1, q - 1)), q + 1)
               [] OTHER ->
                     LET e == PlainEnd(s, j)
                         text == Trim(SubSeq(s, j, e - 1))
                     IN  IF text = <<>> THEN Failed ELSE Read(resolvePlain(text), e)

\* The items of a flow sequence after its opening bracket.
ReadItems(s, i, items) ==
    LET j == SkipSpaces(s, i)
    IN  IF j > Len(s) THEN Failed
        ELSE IF s[j] = "]" THEN Read(JSArray(items), j + 1)
        ELSE ItemRead(s, ReadFlow(s, j), items)

\* After the item r: a comma and more items, or the closing bracket.
ItemRead(s, r, items) ==
    IF ~r.ok THEN Failed
    ELSE LET k == SkipSpaces(s, r.next)
         IN  IF k > Len(s) THEN Failed
             ELSE IF s[k] = "," THEN ReadItems(s, k + 1, Append(items, r.v))
             ELSE IF s[k] = "]" THEN Read(JSArray(Append(items, r.v)), k + 1)
             ELSE Failed

\* The pairs of a flow mapping after its opening brace.
ReadPairs(s, i, pairs) ==
    LET j == SkipSpaces(s, i)
    IN  IF j > Len(s) THEN Failed
        ELSE IF s[j] = "}" THEN Read(JSObject(pairs), j + 1)
        ELSE KeyRead(s, ReadFlow(s, j), pairs)

\* After the key: its colon and its value.  A key is a scalar, and a key
\* written twice is an error of the loader.
KeyRead(s, key, pairs) ==
    IF ~key.ok THEN Failed
    ELSE LET c == SkipSpaces(s, key.next)
         IN  IF c > Len(s) THEN Failed
             ELSE IF ~IsScalar(key.v) \/ ~EndsKey(s, c) THEN Failed
             ELSE IF HasKeyNamed(pairs, KeyString(key.v)) THEN Failed
             ELSE ValueRead(s, ReadFlow(s, c + 1), KeyString(key.v), pairs)

\* After the value r of the key: a comma and more pairs, or the closing
\* brace.
ValueRead(s, r, key, pairs) ==
    IF ~r.ok THEN Failed
    ELSE LET k == SkipSpaces(s, r.next)
         IN  IF k > Len(s) THEN Failed
             ELSE IF s[k] = "," THEN ReadPairs(s, k + 1, Append(pairs, Pair(key, r.v)))
             ELSE IF s[k] = "}" THEN Read(JSObject(Append(pairs, Pair(key, r.v))), k + 1)
             ELSE Failed

\* The node r when nothing but spaces follows it on the line s.
EndsLine(s, r) == IF r.ok /\ SkipSpaces(s, r.next) > Len(s) THEN r ELSE Failed

\* The value written on the rest of a line in block style: nothing (null),
\* a quoted scalar, a flow collection or a plain scalar up to the end.
ReadInline(s) ==
    LET j == SkipSpaces(s, 1)
    IN  IF j > Len(s) THEN Read(JSNull, j)
        ELSE IF s[j] \in {"[", "{", "\"", "'"} THEN EndsLine(s, ReadFlow(s, j))
        ELSE IF \E m \in j..Len(s) : EndsKey(s, m) THEN Failed
        ELSE Read(resolvePlain(Trim(s)), Len(s) + 1)

\* A line of a block: its indentation and what follows it.
Measure(line) ==
    LET indent == SkipSpaces(line, 1) - 1
    IN  [indent |-> indent, content |-> Trim(line)]

IsItem(content) == content = <<"-">> \/ StartsWith(content, <<"-", " ">>)

\* Where the key of a "key: value" line ends (the index of its colon), 0
\* when the line has no key.
KeyColon(content) ==
    IF content = <<>> \/ content[1] \in {"[", "{"} THEN 0
    ELSE IF content[1] \in {"\"", "'"}
    THEN LET q == ClosingQuote(content, 1)
         IN  IF q # 0 /\ q < Len(content) /\ EndsKey(content, q + 1) THEN q + 1 ELSE 0
    ELSE IF \E i \in 1..Len(content) : EndsKey(content, i)
    THEN CHOOSE i \in 1..Len(content) :
            EndsKey(content, i) /\ \A m \in 1..(i - 1) : ~EndsKey(content, m)
    ELSE 0

\* How many of the lines after the first are indented deeper than base,
\* counted from the second line on while they are.
RECURSIVE Deeper(_, _, _)
Deeper(ls, base, i) ==
    IF i <= Len(ls) /\ ls[i].indent > base THEN 1 + Deeper(ls, base, i + 1) ELSE 0

RECURSIVE ReadBlock(_)
RECURSIVE ReadSequence(_, _, _)
RECURSIVE ItemLineRead(_, _, _, _)
RECURSIVE ReadMapping(_, _, _)
RECURSIVE ReadEntry(_, _, _, _, _)
RECURSIVE EntryRead(_, _, _, _, _, _)

\* The node written on the measured lines ls of one document or of one
\* nested block.
ReadBlock(ls) ==
    IF ls = <<>> THEN Read(JSNull, 0)
    ELSE IF \E i \in DOMAIN ls : ls[i].indent < ls[1].indent THEN Failed
    ELSE IF IsItem(ls[1].content) THEN ReadSequence(ls, ls[1].indent, <<>>)
    ELSE IF KeyColon(ls[1].content) # 0 THEN ReadMapping(ls, ls[1].indent, <<>>)
    ELSE IF Len(ls) = 1 THEN ReadInline(ls[1].content)
    ELSE Failed

\* "- item" lines, all at the indentation base.
ReadSequence(ls, base, items) ==
    IF ls = <<>> THEN Read(JSArray(items), 0)
    ELSE IF ls[1].indent # base \/ ~IsItem(ls[1].content) THEN Failed
    ELSE ItemLineRead(ls, base, items, ReadInline(Substring(ls[1].content, 1)))

\* After the item r of the first line: the items of the other lines.
ItemLineRead(ls, base, items, r) ==
    IF ~r.ok THEN Failed
    ELSE ReadSequence(Tail(ls), base, Append(items, r.v))

\* "key: value" lines at the indentation base; the value of a key without
\* value on its line is the block on the deeper lines that follow it.
ReadMapping(ls, base, pairs) ==
    IF ls = <<>> THEN Read(JSObject(pairs), 0)
    ELSE IF ls[1].indent # base THEN Failed
    ELSE ReadEntry(ls, base, pairs, KeyColon(ls[1].content), Deeper(ls, base, 2))

\* The entry of the first line, whose key ends at colon and which has n
\* deeper lines after it.
ReadEntry(ls, base, pairs, colon, n) ==
    IF colon = 0 THEN Failed
    ELSE EntryRead(ls, base, pairs, n,
                   ReadInline(SubSeq(ls[1].content, 1, colon - 1)),
                   IF Blank(Substring(ls[1].content, colon))
                   THEN ReadBlock(SubSeq(ls, 2, n + 1))
                   ELSE IF n = 0 THEN ReadInline(Substring(ls[1].content, colon))
                   ELSE Failed)

\* After the key and the value of the first entry: the entries of the
\* lines after its n deeper lines.
EntryRead(ls, base, pairs, n, key, value) ==
    IF ~key.ok \/ ~IsScalar(key.v) \/ ~value.ok THEN Failed
    ELSE IF HasKeyNamed(pairs, KeyString(key.v)) THEN Failed
    ELSE ReadMapping(SubSeq(ls, n + 2, Len(ls)), base,
                     Append(pairs, Pair(KeyString(key.v), value.v)))

RECURSIVE SplitLines(_)
\* The lines of a text; a line ends at a line feed, and a carriage return
\* before the line feed belongs to the line end.
SplitLines(text) ==
    IF text = <<>> THEN <<>>
    ELSE LET i == IndexOf(text, {"\n"})
             line == IF i = 0 THEN text ELSE SubSeq(text, 1, i - 1)
             bare == IF line # <<>> /\ line[Len(line)] = "\r"
                     THEN SubSeq(line, 1, Len(line) - 1) ELSE line
         IN  IF i = 0 THEN <<bare>>
             ELSE <<bare>> \o SplitLines(SubSeq(text, i + 1, Len(text)))

IsMarker(line) == line \in {T_document, T_end}
IsDirective(line) == line # <<>> /\ line[1] = "%"

\* How many lines from index i on come before the next marker line.
RECURSIVE BodyLength(_, _)
BodyLength(lines, i) ==
    IF i <= Len(lines) /\ ~IsMarker(lines[i]) THEN 1 + BodyLength(lines, i + 1) ELSE 0

MeasuredBody(lines) ==
    LET kept == SelectSeq(lines, LAMBDA l : ~Blank(l))
    IN  [i \in DOMAIN kept |-> Measure(kept[i])]

YAMLSyntaxError == Throw("YAMLException", <<>>)

RECURSIVE LoadDocuments(_, _)
RECURSIVE LoadDocument(_, _, _, _)
RECURSIVE DocumentRead(_, _, _)

\* The documents of the lines, in order.  A document starts at --- or at
\* the first line of content and ends before the next --- or at ... ;
\* directives are followed by ---.
LoadDocuments(lines, documents) ==
    IF lines = <<>> THEN Return(documents)
    ELSE IF Blank(lines[1]) THEN LoadDocuments(Tail(lines), documents)
    ELSE IF IsDirective(lines[1])
    THEN IF Len(lines) > 1 /\ (IsDirective(lines[2]) \/ lines[2] = T_document)
         THEN LoadDocuments(Tail(lines), documents)
         ELSE YAMLSyntaxError
    ELSE IF lines[1] = T_document
    THEN LoadDocument(lines, 2, BodyLength(lines, 2), documents)
    ELSE LoadDocument(lines, 1, BodyLength(lines, 1), documents)

\* The document on the n lines from index from on, and the documents after
\* it.
LoadDocument(lines, from, n, documents) ==
    DocumentRead(ReadBlock(MeasuredBody(SubSeq(lines, from, from + n - 1))),
                 SubSeq(lines, from + n, Len(lines)), documents)

\* After the document body: the documents on the lines after it, past its
\* end marker.
DocumentRead(body, after, documents) ==
    IF ~body.ok THEN YAMLSyntaxError
    ELSE LoadDocuments(IF after # <<>> /\ after[1] = T_end THEN Tail(after) ELSE after,
                       Append(documents, body.v))

\* jsyaml.loadAll(text, iterator): the documents handed to the iterator.
loadAll(text) == LoadDocuments(SplitLines(text), <<>>)

(***************************************************************************)
(* TextDocument.positionAt and offsetAt, TextEdit.replace and format.      *)
(***************************************************************************)
\* The offsets at which a line starts: 0 and the offset after every line
\* feed and after every carriage return that no line feed follows.
LineOffsets(text) ==
    {0} \cup {i \in 1..Len(text) :
                 \/ text[i] = "\n"
                 \/ text[i] = "\r" /\ (i = Len(text) \/ text[i + 1] # "\n")}

Position(line, character) == [line |-> line, character |-> character]
Range(start, end) == [start |-> start, end |-> end]

positionAt(text, offset) ==
    LET before == {o \in LineOffsets(text) : o <= offset}
    IN  Position(Cardinality(before) - 1, offset - Max(before))

offsetAt(text, position) ==
    LET offsets == LineOffsets(text)
        start == CHOOSE o \in offsets :
                    Cardinality({p \in offsets : p < o}) = position.line
    IN  start + position.character

TextEditReplace(range, newText) == [range |-> range, newText |-> newText]

\* The text format writes for the loaded documents: the dump of the one
\* document, or every dump between --- and ... after the directive.
NewTextOf(documents, options, EOL) ==
    IF Len(documents) = 1
    THEN safeDump(documents[1], [indent |-> options.tabSize])
    ELSE T_directive \o EOL \o T_document \o EOL
             \o JoinWith([i \in DOMAIN documents |->
                             safeDump(documents[i], [indent |-> options.tabSize])],
                         T_end \o EOL \o T_document \o EOL)
             \o T_end \o EOL

\* The one edit of format: the whole text replaced by the new text.  An
\* exception of loadAll leaves format.
ReplaceAll(text, loaded, options, EOL) ==
    IF loaded.thrown THEN loaded
    ELSE Return(<<TextEditReplace(Range(Position(0, 0), positionAt(text, Len(text))),
                                  NewTextOf(loaded.value, options, EOL))>>)

\* Variant: the dumper is left at its own indent.
format_defaultIndent(document, options, EOL) ==
    ReplaceAll(document.text, loadAll(document.text), [options EXCEPT !.tabSize = 2], EOL)

\* format(document, options); EOL is the line end of the platform, the
\* module's import from 'os'.
format(document, options, EOL) ==
    ReplaceAll(document.text, loadAll(document.text), options, EOL)

\* What the editor makes of a text by the edits returned for it (one edit).
ApplyEdits(text, edits) ==
    LET e == edits[1]
        from == offsetAt(text, e.range.start)
        to == offsetAt(text, e.range.end)
    IN  SubSeq(text, 1, from) \o e.newText \o SubSeq(text, to + 1, Len(text))

(***************************************************************************)
(* The texts handed to format: documents of at most MaxItems items per     *)
(* sequence written in one of the source styles, alone or framed, and      *)
(* streams of no document and of 2 to MaxDocuments documents.              *)
(***************************************************************************)
MaxItems == 2
MaxDocuments == 3
MaxFormats == 1

T_a == <<"a">>
T_b == <<"b">>
T_10 == <<"1", "0">>

ScalarValues == {JSNull, JSNumber(10), JSString(T_a), JSString(T_10)}
ArrayValues == {JSArray(items) : items \in TextsOver(ScalarValues, MaxItems)}
NestedValues ==
    {JSNumber(10), JSString(T_10),
     JSArray(<<>>), JSArray(<<JSString(T_a), JSString(T_10)>>),
     JSObject(<<>>), JSObject(<<Pair(T_b, JSNull), Pair(T_a, JSNumber(10))>>)}
ObjectValues ==
    {JSObject(<<>>)}
        \cup {JSObject(<<Pair(T_a, v)>>) : v \in NestedValues}
        \cup {JSObject(<<Pair(T_a, v), Pair(T_b, w)>>) : v \in NestedValues, w \in NestedValues}
        \cup {JSObject(<<Pair(T_b, v), Pair(T_a, w)>>) : v \in NestedValues, w \in NestedValues}
DocumentValues == ScalarValues \cup ArrayValues \cup ObjectValues

Style(flow, indent, doubleQuoted, tight) ==
    [flow |-> flow, indent |-> indent, doubleQuoted |-> doubleQuoted, tight |-> tight]
SourceStyles ==
    {Style(FALSE, 2, FALSE, FALSE), Style(FALSE, 4, TRUE, FALSE),
     Style(TRUE, 2, FALSE, FALSE), Style(TRUE, 2, TRUE, TRUE)}

\* One document as a text of its own: bare with and without its last line
\* feed, after ---, or after the directive and --- and ended by ... .
SingleTexts(v, style) ==
    LET body == Terminated(Write(v, style), LF)
    IN  {body,
         JoinWith(Write(v, style), LF),
         T_document \o LF \o body,
         T_directive \o LF \o T_document \o LF \o body \o T_end \o LF}

StreamValues == {JSNull, JSString(T_10), JSArray(<<JSNumber(10)>>),
                 JSObject(<<Pair(T_a, JSArray(<<JSString(T_a)>>))>>)}

RECURSIVE Bodies(_, _)
Bodies(documents, style) ==
    IF documents = <<>> THEN <<>>
    ELSE <<Terminated(Write(documents[1], style), LF)>> \o Bodies(Tail(documents), style)

\* Several documents in one text: separated by ---, or each between ---
\* and ... , with or without the directive.
StreamTexts(documents) ==
    LET block == Bodies(documents, Style(FALSE, 2, FALSE, FALSE))
        flow == Bodies(documents, Style(TRUE, 2, TRUE, FALSE))
        Framed(bodies) == T_document \o LF
                              \o JoinWith(bodies, T_end \o LF \o T_document \o LF)
                              \o T_end \o LF
    IN  {JoinWith(block, T_document \o LF),
         Framed(flow),
         T_directive \o LF \o Framed(block)}

Source(text, documents) == [text |-> text, documents |-> documents]

Sources ==
    {Source(<<>>, <<>>), Source(LF, <<>>)}
        \cup UNION {{Source(t, <<v>>) : t \in SingleTexts(v, style)} :
                       v \in DocumentValues, style \in SourceStyles}
        \cup UNION {{Source(t, ds) : t \in StreamTexts(ds)} :
                       ds \in UNION {[1..n -> StreamValues] : n \in 2..MaxDocuments}}

TabSizes == {2, 4}
FormattingOptions == [tabSize : TabSizes, insertSpaces : {TRUE}]
Platforms == {LF, CRLF}

(***************************************************************************)
(* FormatSpec: a document is opened with one of the texts; format is       *)
(* called on it and the editor applies the edits returned, at most         *)
(* MaxFormats times.  documents is what the opened text was written from,  *)
(* width the tabSize of the format whose edits were applied last, EOL the  *)
(* line end of the platform the formatter runs on.                         *)
(***************************************************************************)
NoOptions == [tabSize |-> 0, insertSpaces |-> FALSE]

FormatInit ==
    /\ \E source \in Sources : \E EOL \in Platforms :
          edit = [op |-> "opened", text |-> source.text, documents |-> source.documents,
                  options |-> NoOptions, EOL |-> EOL, result |-> NoRet,
                  formats |-> 0, width |-> 0]
    /\ diag = NoDiag /\ service = NoService
    /\ calc = NoCalc
    /\ node = UndefinedNode
    /\ call = "none"
    /\ ret = NoRet
    /\ yamlDoc = NoDoc
    /\ pc = "start"
    /\ result = NoResult
    /\ query = NoQuery

Format ==
    /\ edit.op \in {"opened", "applied"}
    /\ \E options \in FormattingOptions :
          edit' = [edit EXCEPT !.op = "format", !.options = options,
                               !.result = format([text |-> edit.text], options, edit.EOL)]
    /\ UNCHANGED <<node, call, ret, yamlDoc, pc, result, query, calc, diag, service>>

Apply ==
    /\ edit.op = "format" /\ ~edit.result.thrown
    /\ edit.formats < MaxFormats
    /\ edit' = [edit EXCEPT !.op = "applied",
                            !.text = ApplyEdits(edit.text, edit.result.value),
                            !.formats = @ + 1,
                            !.width = edit.options.tabSize,
                            !.options = NoOptions, !.result = NoRet]
    /\ UNCHANGED <<node, call, ret, yamlDoc, pc, result, query, calc, diag, service>>

FormatNext ==
    \/ Format
    \/ Apply

FormatSpec == FormatInit /\ [][FormatNext]_vars

(***************************************************************************)
(* Properties of format (checked under FormatSpec).                        *)
(***************************************************************************)
\* format was called on the opened text, written from n documents.
FormattedOpened(n) ==
    edit.op = "format" /\ edit.formats = 0 /\ Len(edit.documents) = n

NewText == edit.result.value[1].newText

\* The position after the last character of a text whose lines end in line
\* feeds: as many lines down as there are line feeds, as many characters in
\* as follow the last of them.
EndOfText(text) ==
    LET feeds == {i \in DOMAIN text : text[i] = "\n"}
    IN  Position(Cardinality(feeds), Len(text) - (IF feeds = {} THEN 0 ELSE Max(feeds)))

Indentation(line) == SkipSpaces(line, 1) - 1

MarkerLines(text, marker) == {i \in DOMAIN SplitLines(text) : SplitLines(text)[i] = marker}

\* C21: for a text holding exactly one document format returns exactly one
\* edit; its range runs from (0,0) to the end of the text and its new text
\* is the dump of that document with indent = tabSize (block style indented
\* in steps of tabSize, reading back as the document), with no %YAML
\* directive, no --- and no ... added.
C21_SingleDocumentEdit ==
    FormattedOpened(1) =>
        /\ ~edit.result.thrown
        /\ Len(edit.result.value) = 1
        /\ edit.result.value[1].range = Range(Position(0, 0), EndOfText(edit.text))
        /\ NewText = safeDump(edit.documents[1], [indent |-> edit.options.tabSize])
        /\ loadAll(NewText) = Return(edit.documents)
        /\ \A i \in DOMAIN SplitLines(NewText) :
              LET line == SplitLines(NewText)[i]
              IN  /\ Indentation(line) % edit.options.tabSize = 0
                  /\ ~IsMarker(line) /\ ~IsDirective(line)
        /\ ApplyEdits(edit.text, edit.result.value) = NewText

\* C21 witness: the flow text {"a": ["a","10"]} without last line feed was
\* formatted with tabSize 4 to the mapping with its sequence four spaces in.
C21_Witness ==
    /\ FormattedOpened(1) /\ ~edit.result.thrown
    /\ edit.text = <<"{", "\"", "a", "\"", ":", " ", "[", "\"", "a", "\"", ",",
                     "\"", "1", "0", "\"", "]", "}">>
    /\ edit.options.tabSize = 4
    /\ edit.result.value[1].range = Range(Position(0, 0), Position(0, 17))
    /\ NewText = <<"a", ":", "\n",
                   " ", " ", " ", " ", "-", " ", "a", "\n",
                   " ", " ", " ", " ", "-", " ", "'", "1", "0", "'", "\n">>

RECURSIVE FramedLines(_, _)
\* For each document a --- line, the lines of its dump and a ... line.
FramedLines(documents, options) ==
    IF documents = <<>> THEN <<>>
    ELSE <<T_document>> \o SplitLines(safeDump(documents[1], options)) \o <<T_end>>
             \o FramedLines(Tail(documents), options)

\* C22: for a text holding n documents, n = 0 or n >= 2, the formatted text
\* is the line %YAML 1.2 followed, for each document in order, by a --- line,
\* the dump of the document and a ... line; it has exactly n start markers
\* and exactly n end markers.
C22_FramedDocuments ==
    (edit.op = "format" /\ edit.formats = 0 /\ Len(edit.documents) # 1) =>
        /\ ~edit.result.thrown
        /\ SplitLines(NewText) =
              <<T_directive>>
                  \o FramedLines(edit.documents, [indent |-> edit.options.tabSize])
        /\ Cardinality(MarkerLines(NewText, T_document)) = Len(edit.documents)
        /\ Cardinality(MarkerLines(NewText, T_end)) = Len(edit.documents)

\* C23: format is idempotent on its own single-document output: the text
\* that format made of a single-document text, formatted again with the
\* same width, is returned as it is.
C23_Idempotent ==
    (/\ edit.op = "format" /\ edit.formats = 1
     /\ Len(edit.documents) = 1
     /\ edit.options.tabSize = edit.width)
        => /\ ~edit.result.thrown
           /\ NewText = edit.text

\* C23 witness: the text made of {a: [a, "10"]} with width 4 was formatted
\* again with width 4.
C23_Witness ==
    /\ edit.op = "format" /\ edit.formats = 1 /\ ~edit.result.thrown
    /\ edit.documents = <<JSObject(<<Pair(T_a, JSArray(<<JSString(T_a), JSString(T_10)>>))>>)>>
    /\ edit.width = 4 /\ edit.options.tabSize = 4
    /\ edit.text = <<"a", ":", "\n",
                     " ", " ", " ", " ", "-", " ", "a", "\n",
                     " ", " ", " ", " ", "-", " ", "'", "1", "0", "'", "\n">>
    /\ NewText = edit.text

====
